---- MODULE Spec2Model ----
(***************************************************************************)
(* A model of the NextMCP documentation server (src/app.py): the DOCS      *)
(* table, the STATS counters and the tools, prompts, resources and         *)
(* completions the server registers with its host.                         *)
(*                                                                         *)
(* A Python str is modelled as the tuple of its character codes, so that   *)
(* lower(), the `in` substring test, slicing, split, join, concatenation   *)
(* and the ordering used by sorted() are computed on characters as Python  *)
(* computes them.  All the text of the source is ASCII.  A dict is         *)
(* modelled as the sequence of its (key, value) items in insertion order,  *)
(* a dict returned to the host as a record, a list as a sequence.          *)
(***************************************************************************)
EXTENDS Integers, Sequences, FiniteSets, TLC

\* The number of search_documentation invocations explored.
MaxSearches == 3

\* The number of host threads that dispatch search_documentation concurrently.
NumThreads == 2

(***************************************************************************)
(* The literals of src/app.py.                                             *)
(***************************************************************************)
\* DOCS["getting-started"]: title "Getting Started with NextMCP", category "guide", tags ["getting-started", "quickstart", "basics"], content of 462 characters
DOCS_getting_started ==
    [title |-> <<71,101,116,116,105,110,103,32,83,116,97,114,116,101,100,32,119,105,116,104,32,78,101,120,116,77,67,80>>,
     category |-> <<103,117,105,100,101>>,
     tags |-> <<<<103,101,116,116,105,110,103,45,115,116,97,114,116,101,100>>, <<113,117,105,99,107,115,116,97,114,116>>, <<98,97,115,105,99,115>>>>,
     content |->
       <<78,101,120,116,77,67,80,32,105,115,32,97,32,112,114,111,100,117,99,116,105,111,110,45,103,
       114,97,100,101,32,80,121,116,104,111,110,32,83,68,75,32,102,111,114,32,98,117,105,108,100,
       105,110,103,32,77,67,80,32,40,77,111,100,101,108,32,67,111,110,116,101,120,116,32,80,114,111,
       116,111,99,111,108,41,32,115,101,114,118,101,114,115,32,119,105,116,104,32,109,105,110,105,
       109,97,108,32,98,111,105,108,101,114,112,108,97,116,101,46,10,10,75,101,121,32,70,101,97,116,
       117,114,101,115,58,10,45,32,68,101,99,111,114,97,116,111,114,45,98,97,115,101,100,32,65,80,
       73,32,102,111,114,32,116,111,111,108,115,44,32,112,114,111,109,112,116,115,44,32,97,110,100,
       32,114,101,115,111,117,114,99,101,115,10,45,32,66,117,105,108,116,45,105,110,32,104,101,97,
       108,116,104,32,99,104,101,99,107,115,32,97,110,100,32,109,101,116,114,105,99,115,10,45,32,65,
       117,116,111,109,97,116,105,99,32,77,67,80,32,112,114,111,116,111,99,111,108,32,104,97,110,
       100,108,105,110,103,10,45,32,80,114,111,100,117,99,116,105,111,110,45,114,101,97,100,121,32,
       119,105,116,104,32,108,111,103,103,105,110,103,32,97,110,100,32,101,114,114,111,114,32,104,
       97,110,100,108,105,110,103,10,45,32,69,97,115,121,32,100,101,112,108,111,121,109,101,110,116,
       10,10,81,117,105,99,107,32,83,116,97,114,116,58,10,49,46,32,73,110,115,116,97,108,108,58,32,
       112,105,112,32,105,110,115,116,97,108,108,32,110,101,120,116,109,99,112,10,50,46,32,67,114,
       101,97,116,101,32,97,112,112,46,112,121,32,119,105,116,104,32,64,97,112,112,46,116,111,111,
       108,40,41,44,32,64,97,112,112,46,112,114,111,109,112,116,40,41,44,32,64,97,112,112,46,114,
       101,115,111,117,114,99,101,40,41,10,51,46,32,82,117,110,58,32,112,121,116,104,111,110,32,97,
       112,112,46,112,121,10>>]

\* DOCS["tools"]: title "NextMCP Tools", category "primitives", tags ["tools", "primitives", "api"], content of 422 characters
DOCS_tools ==
    [title |-> <<78,101,120,116,77,67,80,32,84,111,111,108,115>>,
     category |-> <<112,114,105,109,105,116,105,118,101,115>>,
     tags |-> <<<<116,111,111,108,115>>, <<112,114,105,109,105,116,105,118,101,115>>, <<97,112,105>>>>,
     content |->
       <<84,111,111,108,115,32,97,114,101,32,109,111,100,101,108,45,100,114,105,118,101,110,32,97,
       99,116,105,111,110,115,32,45,32,99,97,108,108,97,98,108,101,32,102,117,110,99,116,105,111,
       110,115,32,101,120,112,111,115,101,100,32,116,111,32,65,73,32,109,111,100,101,108,115,46,10,
       10,68,101,99,111,114,97,116,111,114,58,32,64,97,112,112,46,116,111,111,108,40,41,10,10,69,
       120,97,109,112,108,101,58,10,96,96,96,112,121,116,104,111,110,10,64,97,112,112,46,116,111,
       111,108,40,41,10,100,101,102,32,115,101,97,114,99,104,95,100,111,99,115,40,113,117,101,114,
       121,58,32,115,116,114,41,32,45,62,32,100,105,99,116,58,10,32,32,32,32,39,39,39,83,101,97,114,
       99,104,32,100,111,99,117,109,101,110,116,97,116,105,111,110,32,102,111,114,32,116,104,101,32,
       103,105,118,101,110,32,113,117,101,114,121,46,39,39,39,10,32,32,32,32,114,101,115,117,108,
       116,115,32,61,32,115,101,97,114,99,104,40,113,117,101,114,121,41,10,32,32,32,32,114,101,116,
       117,114,110,32,123,34,114,101,115,117,108,116,115,34,58,32,114,101,115,117,108,116,115,125,
       10,96,96,96,10,10,66,101,115,116,32,80,114,97,99,116,105,99,101,115,58,10,45,32,85,115,101,
       32,99,108,101,97,114,32,102,117,110,99,116,105,111,110,32,110,97,109,101,115,32,97,110,100,
       32,100,111,99,115,116,114,105,110,103,115,10,45,32,82,101,116,117,114,110,32,74,83,79,78,45,
       115,101,114,105,97,108,105,122,97,98,108,101,32,100,97,116,97,10,45,32,72,97,110,100,108,101,
       32,101,114,114,111,114,115,32,103,114,97,99,101,102,117,108,108,121,10,45,32,80,114,111,118,
       105,100,101,32,116,121,112,101,32,104,105,110,116,115,10>>]

\* DOCS["prompts"]: title "NextMCP Prompts", category "primitives", tags ["prompts", "primitives", "workflows"], content of 491 characters
DOCS_prompts ==
    [title |-> <<78,101,120,116,77,67,80,32,80,114,111,109,112,116,115>>,
     category |-> <<112,114,105,109,105,116,105,118,101,115>>,
     tags |-> <<<<112,114,111,109,112,116,115>>, <<112,114,105,109,105,116,105,118,101,115>>, <<119,111,114,107,102,108,111,119,115>>>>,
     content |->
       <<80,114,111,109,112,116,115,32,97,114,101,32,117,115,101,114,45,100,114,105,118,101,110,32,
       119,111,114,107,102,108,111,119,32,116,101,109,112,108,97,116,101,115,32,116,104,97,116,32,
       103,117,105,100,101,32,65,73,32,97,115,115,105,115,116,97,110,116,115,46,10,10,68,101,99,111,
       114,97,116,111,114,58,32,64,97,112,112,46,112,114,111,109,112,116,40,41,10,10,69,120,97,109,
       112,108,101,58,10,96,96,96,112,121,116,104,111,110,10,64,97,112,112,46,112,114,111,109,112,
       116,40,100,101,115,99,114,105,112,116,105,111,110,61,34,82,101,115,101,97,114,99,104,32,97,
       32,116,111,112,105,99,34,41,10,64,97,114,103,117,109,101,110,116,40,34,116,111,112,105,99,34,
       44,32,100,101,115,99,114,105,112,116,105,111,110,61,34,84,111,112,105,99,32,116,111,32,114,
       101,115,101,97,114,99,104,34,41,10,64,97,114,103,117,109,101,110,116,40,34,100,101,112,116,
       104,34,44,32,115,117,103,103,101,115,116,105,111,110,115,61,91,34,98,97,115,105,99,34,44,32,
       34,100,101,116,97,105,108,101,100,34,93,41,10,100,101,102,32,114,101,115,101,97,114,99,104,
       40,116,111,112,105,99,58,32,115,116,114,44,32,100,101,112,116,104,58,32,115,116,114,32,61,32,
       34,98,97,115,105,99,34,41,32,45,62,32,115,116,114,58,10,32,32,32,32,114,101,116,117,114,110,
       32,102,34,82,101,115,101,97,114,99,104,32,123,116,111,112,105,99,125,32,97,116,32,123,100,
       101,112,116,104,125,32,108,101,118,101,108,46,46,46,34,10,96,96,96,10,10,70,101,97,116,117,
       114,101,115,58,10,45,32,65,114,103,117,109,101,110,116,115,32,119,105,116,104,32,115,117,103,
       103,101,115,116,105,111,110,115,10,45,32,67,111,109,112,108,101,116,105,111,110,32,102,117,
       110,99,116,105,111,110,115,10,45,32,84,97,103,115,32,102,111,114,32,111,114,103,97,110,105,
       122,97,116,105,111,110,10,45,32,68,121,110,97,109,105,99,32,99,111,110,116,101,110,116,32,
       103,101,110,101,114,97,116,105,111,110,10>>]

\* DOCS["resources"]: title "NextMCP Resources", category "primitives", tags ["resources", "primitives", "context"], content of 554 characters
DOCS_resources ==
    [title |-> <<78,101,120,116,77,67,80,32,82,101,115,111,117,114,99,101,115>>,
     category |-> <<112,114,105,109,105,116,105,118,101,115>>,
     tags |-> <<<<114,101,115,111,117,114,99,101,115>>, <<112,114,105,109,105,116,105,118,101,115>>, <<99,111,110,116,101,120,116>>>>,
     content |->
       <<82,101,115,111,117,114,99,101,115,32,97,114,101,32,97,112,112,108,105,99,97,116,105,111,
       110,45,100,114,105,118,101,110,32,99,111,110,116,101,120,116,32,112,114,111,118,105,100,101,
       114,115,32,45,32,100,97,116,97,32,101,120,112,111,115,101,100,32,116,111,32,109,111,100,101,
       108,115,46,10,10,68,101,99,111,114,97,116,111,114,58,32,64,97,112,112,46,114,101,115,111,117,
       114,99,101,40,41,10,10,83,116,97,116,105,99,32,82,101,115,111,117,114,99,101,58,10,96,96,96,
       112,121,116,104,111,110,10,64,97,112,112,46,114,101,115,111,117,114,99,101,40,34,99,111,110,
       102,105,103,58,47,47,97,112,112,34,44,32,100,101,115,99,114,105,112,116,105,111,110,61,34,65,
       112,112,32,99,111,110,102,105,103,34,41,10,100,101,102,32,97,112,112,95,99,111,110,102,105,
       103,40,41,32,45,62,32,100,105,99,116,58,10,32,32,32,32,114,101,116,117,114,110,32,123,34,118,
       101,114,115,105,111,110,34,58,32,34,49,46,48,46,48,34,125,10,96,96,96,10,10,68,121,110,97,
       109,105,99,32,82,101,115,111,117,114,99,101,32,84,101,109,112,108,97,116,101,58,10,96,96,96,
       112,121,116,104,111,110,10,64,97,112,112,46,114,101,115,111,117,114,99,101,95,116,101,109,
       112,108,97,116,101,40,34,100,111,99,115,58,47,47,123,100,111,99,95,105,100,125,34,41,10,97,
       115,121,110,99,32,100,101,102,32,103,101,116,95,100,111,99,40,100,111,99,95,105,100,58,32,
       115,116,114,41,32,45,62,32,100,105,99,116,58,10,32,32,32,32,114,101,116,117,114,110,32,108,
       111,97,100,95,100,111,99,117,109,101,110,116,40,100,111,99,95,105,100,41,10,96,96,96,10,10,
       70,101,97,116,117,114,101,115,58,10,45,32,83,116,97,116,105,99,32,97,110,100,32,100,121,110,
       97,109,105,99,32,114,101,115,111,117,114,99,101,115,10,45,32,83,117,98,115,99,114,105,98,97,
       98,108,101,32,114,101,115,111,117,114,99,101,115,32,40,114,101,97,108,45,116,105,109,101,32,
       117,112,100,97,116,101,115,41,10,45,32,84,101,109,112,108,97,116,101,32,112,97,114,97,109,
       101,116,101,114,115,32,119,105,116,104,32,99,111,109,112,108,101,116,105,111,110,10,45,32,67,
       117,115,116,111,109,32,85,82,73,32,115,99,104,101,109,101,115,10>>]

\* DOCS["deployment"]: title "Deploying NextMCP Servers", category "deployment", tags ["deployment", "docker", "cloud", "production"], content of 593 characters
DOCS_deployment ==
    [title |-> <<68,101,112,108,111,121,105,110,103,32,78,101,120,116,77,67,80,32,83,101,114,118,101,114,115>>,
     category |-> <<100,101,112,108,111,121,109,101,110,116>>,
     tags |-> <<<<100,101,112,108,111,121,109,101,110,116>>, <<100,111,99,107,101,114>>, <<99,108,111,117,100>>, <<112,114,111,100,117,99,116,105,111,110>>>>,
     content |->
       <<78,101,120,116,77,67,80,32,115,101,114,118,101,114,115,32,99,97,110,32,98,101,32,100,101,
       112,108,111,121,101,100,32,105,110,32,109,117,108,116,105,112,108,101,32,119,97,121,115,58,
       10,10,49,46,32,68,105,114,101,99,116,32,80,121,116,104,111,110,58,10,32,32,32,112,121,116,
       104,111,110,32,97,112,112,46,112,121,10,10,50,46,32,68,111,99,107,101,114,58,10,32,32,32,45,
       32,67,114,101,97,116,101,32,68,111,99,107,101,114,102,105,108,101,32,119,105,116,104,32,80,
       121,116,104,111,110,32,98,97,115,101,32,105,109,97,103,101,10,32,32,32,45,32,73,110,115,116,
       97,108,108,32,110,101,120,116,109,99,112,32,97,110,100,32,100,101,112,101,110,100,101,110,99,
       105,101,115,10,32,32,32,45,32,67,77,68,32,91,34,112,121,116,104,111,110,34,44,32,34,97,112,
       112,46,112,121,34,93,10,10,51,46,32,67,108,111,117,100,32,80,108,97,116,102,111,114,109,115,
       58,10,32,32,32,45,32,82,101,110,100,101,114,44,32,82,97,105,108,119,97,121,44,32,70,108,121,
       46,105,111,10,32,32,32,45,32,75,56,115,32,119,105,116,104,32,104,101,97,108,116,104,32,99,
       104,101,99,107,115,10,32,32,32,45,32,83,101,114,118,101,114,108,101,115,115,32,40,119,105,
       116,104,32,97,100,97,112,116,97,116,105,111,110,115,41,10,10,72,101,97,108,116,104,32,67,104,
       101,99,107,115,58,10,78,101,120,116,77,67,80,32,105,110,99,108,117,100,101,115,32,98,117,105,
       108,116,45,105,110,32,47,104,101,97,108,116,104,32,101,110,100,112,111,105,110,116,32,116,
       104,97,116,32,114,101,116,117,114,110,115,58,10,123,34,115,116,97,116,117,115,34,58,32,34,
       104,101,97,108,116,104,121,34,44,32,34,115,101,114,118,105,99,101,34,58,32,34,121,111,117,
       114,45,115,101,114,118,101,114,45,110,97,109,101,34,125,10,10,69,110,118,105,114,111,110,109,
       101,110,116,32,86,97,114,105,97,98,108,101,115,58,10,45,32,80,79,82,84,58,32,83,101,114,118,
       101,114,32,112,111,114,116,32,40,100,101,102,97,117,108,116,58,32,56,48,48,48,41,10,45,32,72,
       79,83,84,58,32,83,101,114,118,101,114,32,104,111,115,116,32,40,100,101,102,97,117,108,116,58,
       32,48,46,48,46,48,46,48,41,10,45,32,76,79,71,95,76,69,86,69,76,58,32,76,111,103,103,105,110,
       103,32,108,101,118,101,108,32,40,100,101,102,97,117,108,116,58,32,73,78,70,79,41,10>>]

\* DOCS["examples"]: title "NextMCP Examples", category "examples", tags ["examples", "samples", "templates"], content of 574 characters
DOCS_examples ==
    [title |-> <<78,101,120,116,77,67,80,32,69,120,97,109,112,108,101,115>>,
     category |-> <<101,120,97,109,112,108,101,115>>,
     tags |-> <<<<101,120,97,109,112,108,101,115>>, <<115,97,109,112,108,101,115>>, <<116,101,109,112,108,97,116,101,115>>>>,
     content |->
       <<78,101,120,116,77,67,80,32,105,110,99,108,117,100,101,115,32,109,97,110,121,32,101,120,97,
       109,112,108,101,32,115,101,114,118,101,114,115,58,10,10,49,46,32,107,110,111,119,108,101,100,
       103,101,95,98,97,115,101,58,32,65,108,108,32,51,32,112,114,105,109,105,116,105,118,101,115,
       32,40,116,111,111,108,115,44,32,112,114,111,109,112,116,115,44,32,114,101,115,111,117,114,99,
       101,115,41,10,50,46,32,119,101,97,116,104,101,114,95,98,111,116,58,32,83,105,109,112,108,101,
       32,116,111,111,108,45,98,97,115,101,100,32,115,101,114,118,101,114,10,51,46,32,98,108,111,
       103,95,115,101,114,118,101,114,58,32,82,101,115,111,117,114,99,101,32,116,101,109,112,108,97,
       116,101,115,32,97,110,100,32,99,111,110,116,101,110,116,32,109,97,110,97,103,101,109,101,110,
       116,10,52,46,32,97,117,116,104,95,97,112,105,95,107,101,121,58,32,65,80,73,32,107,101,121,32,
       97,117,116,104,101,110,116,105,99,97,116,105,111,110,10,53,46,32,97,117,116,104,95,106,119,
       116,58,32,74,87,84,32,116,111,107,101,110,32,97,117,116,104,101,110,116,105,99,97,116,105,
       111,110,10,54,46,32,97,117,116,104,95,114,98,97,99,58,32,82,111,108,101,45,98,97,115,101,100,
       32,97,99,99,101,115,115,32,99,111,110,116,114,111,108,10,55,46,32,109,101,116,114,105,99,115,
       95,101,120,97,109,112,108,101,58,32,80,114,111,109,101,116,104,101,117,115,32,109,101,116,
       114,105,99,115,32,105,110,116,101,103,114,97,116,105,111,110,10,56,46,32,112,108,117,103,105,
       110,95,101,120,97,109,112,108,101,58,32,80,108,117,103,105,110,32,115,121,115,116,101,109,10,
       57,46,32,119,101,98,115,111,99,107,101,116,95,99,104,97,116,58,32,87,101,98,83,111,99,107,
       101,116,32,116,114,97,110,115,112,111,114,116,10,10,69,97,99,104,32,101,120,97,109,112,108,
       101,32,100,101,109,111,110,115,116,114,97,116,101,115,32,115,112,101,99,105,102,105,99,32,78,
       101,120,116,77,67,80,32,102,101,97,116,117,114,101,115,32,97,110,100,32,112,97,116,116,101,
       114,110,115,46,10,83,101,101,58,32,104,116,116,112,115,58,47,47,103,105,116,104,117,98,46,99,
       111,109,47,75,101,115,104,97,118,86,97,114,97,100,47,78,101,120,116,77,67,80,47,116,114,101,
       101,47,109,97,105,110,47,101,120,97,109,112,108,101,115,10>>]

\* DOCS["authentication"]: title "NextMCP Authentication", category "security", tags ["auth", "security", "middleware"], content of 656 characters
DOCS_authentication ==
    [title |-> <<78,101,120,116,77,67,80,32,65,117,116,104,101,110,116,105,99,97,116,105,111,110>>,
     category |-> <<115,101,99,117,114,105,116,121>>,
     tags |-> <<<<97,117,116,104>>, <<115,101,99,117,114,105,116,121>>, <<109,105,100,100,108,101,119,97,114,101>>>>,
     content |->
       <<78,101,120,116,77,67,80,32,115,117,112,112,111,114,116,115,32,109,117,108,116,105,112,108,
       101,32,97,117,116,104,101,110,116,105,99,97,116,105,111,110,32,109,101,116,104,111,100,115,
       58,10,10,49,46,32,65,80,73,32,75,101,121,115,58,10,96,96,96,112,121,116,104,111,110,10,102,
       114,111,109,32,110,101,120,116,109,99,112,46,97,117,116,104,32,105,109,112,111,114,116,32,65,
       80,73,75,101,121,65,117,116,104,10,10,97,117,116,104,32,61,32,65,80,73,75,101,121,65,117,116,
       104,40,41,10,97,117,116,104,46,97,100,100,95,107,101,121,40,34,107,101,121,45,49,50,51,34,44,
       32,34,117,115,101,114,49,34,41,10,97,112,112,46,97,100,100,95,109,105,100,100,108,101,119,97,
       114,101,40,97,117,116,104,41,10,96,96,96,10,10,50,46,32,74,87,84,32,84,111,107,101,110,115,
       58,10,96,96,96,112,121,116,104,111,110,10,102,114,111,109,32,110,101,120,116,109,99,112,46,
       97,117,116,104,32,105,109,112,111,114,116,32,74,87,84,65,117,116,104,10,10,97,117,116,104,32,
       61,32,74,87,84,65,117,116,104,40,115,101,99,114,101,116,61,34,121,111,117,114,45,115,101,99,
       114,101,116,34,41,10,97,112,112,46,97,100,100,95,109,105,100,100,108,101,119,97,114,101,40,
       97,117,116,104,41,10,96,96,96,10,10,51,46,32,82,66,65,67,32,40,82,111,108,101,45,66,97,115,
       101,100,32,65,99,99,101,115,115,32,67,111,110,116,114,111,108,41,58,10,96,96,96,112,121,116,
       104,111,110,10,102,114,111,109,32,110,101,120,116,109,99,112,46,97,117,116,104,32,105,109,
       112,111,114,116,32,82,66,65,67,65,117,116,104,10,10,97,117,116,104,32,61,32,82,66,65,67,65,
       117,116,104,40,41,10,97,117,116,104,46,97,100,100,95,114,111,108,101,40,34,97,100,109,105,
       110,34,44,32,91,34,114,101,97,100,34,44,32,34,119,114,105,116,101,34,44,32,34,100,101,108,
       101,116,101,34,93,41,10,97,112,112,46,97,100,100,95,109,105,100,100,108,101,119,97,114,101,
       40,97,117,116,104,41,10,96,96,96,10,10,66,101,115,116,32,80,114,97,99,116,105,99,101,115,58,
       10,45,32,83,116,111,114,101,32,115,101,99,114,101,116,115,32,105,110,32,101,110,118,105,114,
       111,110,109,101,110,116,32,118,97,114,105,97,98,108,101,115,10,45,32,85,115,101,32,72,84,84,
       80,83,32,105,110,32,112,114,111,100,117,99,116,105,111,110,10,45,32,73,109,112,108,101,109,
       101,110,116,32,112,114,111,112,101,114,32,116,111,107,101,110,32,101,120,112,105,114,97,116,
       105,111,110,10,45,32,76,111,103,32,97,117,116,104,32,102,97,105,108,117,114,101,115,32,102,
       111,114,32,109,111,110,105,116,111,114,105,110,103,10>>]

\* DOCS["middleware"]: title "NextMCP Middleware", category "middleware", tags ["middleware", "interceptors", "cross-cutting"], content of 586 characters
DOCS_middleware ==
    [title |-> <<78,101,120,116,77,67,80,32,77,105,100,100,108,101,119,97,114,101>>,
     category |-> <<109,105,100,100,108,101,119,97,114,101>>,
     tags |-> <<<<109,105,100,100,108,101,119,97,114,101>>, <<105,110,116,101,114,99,101,112,116,111,114,115>>, <<99,114,111,115,115,45,99,117,116,116,105,110,103>>>>,
     content |->
       <<77,105,100,100,108,101,119,97,114,101,32,105,110,116,101,114,99,101,112,116,115,32,114,101,
       113,117,101,115,116,115,32,97,110,100,32,114,101,115,112,111,110,115,101,115,32,102,111,114,
       32,99,114,111,115,115,45,99,117,116,116,105,110,103,32,99,111,110,99,101,114,110,115,46,10,
       10,66,117,105,108,116,45,105,110,32,77,105,100,100,108,101,119,97,114,101,58,10,45,32,65,117,
       116,104,101,110,116,105,99,97,116,105,111,110,32,40,65,80,73,32,75,101,121,44,32,74,87,84,44,
       32,82,66,65,67,41,10,45,32,82,97,116,101,32,76,105,109,105,116,105,110,103,10,45,32,67,79,82,
       83,10,45,32,82,101,113,117,101,115,116,32,76,111,103,103,105,110,103,10,45,32,69,114,114,111,
       114,32,72,97,110,100,108,105,110,103,10,10,67,117,115,116,111,109,32,77,105,100,100,108,101,
       119,97,114,101,58,10,96,96,96,112,121,116,104,111,110,10,102,114,111,109,32,110,101,120,116,
       109,99,112,46,109,105,100,100,108,101,119,97,114,101,32,105,109,112,111,114,116,32,77,105,
       100,100,108,101,119,97,114,101,10,10,99,108,97,115,115,32,67,117,115,116,111,109,77,105,100,
       100,108,101,119,97,114,101,40,77,105,100,100,108,101,119,97,114,101,41,58,10,32,32,32,32,97,
       115,121,110,99,32,100,101,102,32,98,101,102,111,114,101,95,114,101,113,117,101,115,116,40,
       115,101,108,102,44,32,114,101,113,117,101,115,116,41,58,10,32,32,32,32,32,32,32,32,35,32,80,
       114,111,99,101,115,115,32,114,101,113,117,101,115,116,10,32,32,32,32,32,32,32,32,112,97,115,
       115,10,10,32,32,32,32,97,115,121,110,99,32,100,101,102,32,97,102,116,101,114,95,114,101,115,
       112,111,110,115,101,40,115,101,108,102,44,32,114,101,115,112,111,110,115,101,41,58,10,32,32,
       32,32,32,32,32,32,35,32,80,114,111,99,101,115,115,32,114,101,115,112,111,110,115,101,10,32,
       32,32,32,32,32,32,32,114,101,116,117,114,110,32,114,101,115,112,111,110,115,101,10,10,97,112,
       112,46,97,100,100,95,109,105,100,100,108,101,119,97,114,101,40,67,117,115,116,111,109,77,105,
       100,100,108,101,119,97,114,101,40,41,41,10,96,96,96,10,10,79,114,100,101,114,32,109,97,116,
       116,101,114,115,32,45,32,109,105,100,100,108,101,119,97,114,101,32,105,115,32,101,120,101,99,
       117,116,101,100,32,105,110,32,116,104,101,32,111,114,100,101,114,32,97,100,100,101,100,46,
       10>>]

\* The DOCS dict as the sequence of its (key, document) items in insertion order.
DOCS_literal ==
  <<
    <<<<103,101,116,116,105,110,103,45,115,116,97,114,116,101,100>>, DOCS_getting_started>>,   \* "getting-started"
    <<<<116,111,111,108,115>>, DOCS_tools>>,   \* "tools"
    <<<<112,114,111,109,112,116,115>>, DOCS_prompts>>,   \* "prompts"
    <<<<114,101,115,111,117,114,99,101,115>>, DOCS_resources>>,   \* "resources"
    <<<<100,101,112,108,111,121,109,101,110,116>>, DOCS_deployment>>,   \* "deployment"
    <<<<101,120,97,109,112,108,101,115>>, DOCS_examples>>,   \* "examples"
    <<<<97,117,116,104,101,110,116,105,99,97,116,105,111,110>>, DOCS_authentication>>,   \* "authentication"
    <<<<109,105,100,100,108,101,119,97,114,101>>, DOCS_middleware>>   \* "middleware"
  >>

\* examples["simple-tool"]: description "Basic tool implementation", code of 457 characters
examples_simple_tool ==
    [description |-> <<66,97,115,105,99,32,116,111,111,108,32,105,109,112,108,101,109,101,110,116,97,116,105,111,110>>,
     code |->
       <<102,114,111,109,32,110,101,120,116,109,99,112,32,105,109,112,111,114,116,32,78,101,120,116,
       77,67,80,10,10,97,112,112,32,61,32,78,101,120,116,77,67,80,40,34,109,121,45,115,101,114,118,
       101,114,34,41,10,10,64,97,112,112,46,116,111,111,108,40,41,10,100,101,102,32,99,97,108,99,
       117,108,97,116,101,40,120,58,32,102,108,111,97,116,44,32,121,58,32,102,108,111,97,116,44,32,
       111,112,101,114,97,116,105,111,110,58,32,115,116,114,41,32,45,62,32,102,108,111,97,116,58,10,
       32,32,32,32,34,34,34,80,101,114,102,111,114,109,32,98,97,115,105,99,32,97,114,105,116,104,
       109,101,116,105,99,32,111,112,101,114,97,116,105,111,110,115,46,34,34,34,10,32,32,32,32,105,
       102,32,111,112,101,114,97,116,105,111,110,32,61,61,32,34,97,100,100,34,58,10,32,32,32,32,32,
       32,32,32,114,101,116,117,114,110,32,120,32,43,32,121,10,32,32,32,32,101,108,105,102,32,111,
       112,101,114,97,116,105,111,110,32,61,61,32,34,115,117,98,116,114,97,99,116,34,58,10,32,32,32,
       32,32,32,32,32,114,101,116,117,114,110,32,120,32,45,32,121,10,32,32,32,32,101,108,105,102,32,
       111,112,101,114,97,116,105,111,110,32,61,61,32,34,109,117,108,116,105,112,108,121,34,58,10,
       32,32,32,32,32,32,32,32,114,101,116,117,114,110,32,120,32,42,32,121,10,32,32,32,32,101,108,
       105,102,32,111,112,101,114,97,116,105,111,110,32,61,61,32,34,100,105,118,105,100,101,34,58,
       10,32,32,32,32,32,32,32,32,114,101,116,117,114,110,32,120,32,47,32,121,32,105,102,32,121,32,
       33,61,32,48,32,101,108,115,101,32,102,108,111,97,116,40,39,105,110,102,39,41,10,10,105,102,
       32,95,95,110,97,109,101,95,95,32,61,61,32,34,95,95,109,97,105,110,95,95,34,58,10,32,32,32,32,
       97,112,112,46,114,117,110,40,41,10>>]

\* examples["auth-setup"]: description "API key authentication setup", code of 390 characters
examples_auth_setup ==
    [description |-> <<65,80,73,32,107,101,121,32,97,117,116,104,101,110,116,105,99,97,116,105,111,110,32,115,101,116,117,112>>,
     code |->
       <<102,114,111,109,32,110,101,120,116,109,99,112,32,105,109,112,111,114,116,32,78,101,120,116,
       77,67,80,10,102,114,111,109,32,110,101,120,116,109,99,112,46,97,117,116,104,32,105,109,112,
       111,114,116,32,65,80,73,75,101,121,65,117,116,104,10,10,97,112,112,32,61,32,78,101,120,116,
       77,67,80,40,34,115,101,99,117,114,101,45,115,101,114,118,101,114,34,41,10,97,117,116,104,32,
       61,32,65,80,73,75,101,121,65,117,116,104,40,41,10,97,117,116,104,46,97,100,100,95,107,101,
       121,40,34,115,101,99,114,101,116,45,107,101,121,45,49,50,51,34,44,32,34,117,115,101,114,49,
       34,44,32,114,111,108,101,115,61,91,34,114,101,97,100,34,44,32,34,119,114,105,116,101,34,93,
       41,10,97,112,112,46,97,100,100,95,109,105,100,100,108,101,119,97,114,101,40,97,117,116,104,
       41,10,10,64,97,112,112,46,116,111,111,108,40,41,10,100,101,102,32,112,114,111,116,101,99,116,
       101,100,95,97,99,116,105,111,110,40,100,97,116,97,58,32,115,116,114,41,32,45,62,32,100,105,
       99,116,58,10,32,32,32,32,34,34,34,84,104,105,115,32,116,111,111,108,32,114,101,113,117,105,
       114,101,115,32,97,117,116,104,101,110,116,105,99,97,116,105,111,110,46,34,34,34,10,32,32,32,
       32,114,101,116,117,114,110,32,123,34,115,117,99,99,101,115,115,34,58,32,84,114,117,101,44,32,
       34,100,97,116,97,34,58,32,100,97,116,97,125,10,10,105,102,32,95,95,110,97,109,101,95,95,32,
       61,61,32,34,95,95,109,97,105,110,95,95,34,58,10,32,32,32,32,97,112,112,46,114,117,110,40,41,
       10>>]

\* examples["resource-template"]: description "Dynamic resource with templates", code of 772 characters
examples_resource_template ==
    [description |-> <<68,121,110,97,109,105,99,32,114,101,115,111,117,114,99,101,32,119,105,116,104,32,116,101,109,112,108,97,116,101,115>>,
     code |->
       <<102,114,111,109,32,110,101,120,116,109,99,112,32,105,109,112,111,114,116,32,78,101,120,116,
       77,67,80,10,10,97,112,112,32,61,32,78,101,120,116,77,67,80,40,34,100,111,99,115,45,115,101,
       114,118,101,114,34,41,10,10,35,32,83,116,97,116,105,99,32,114,101,115,111,117,114,99,101,10,
       64,97,112,112,46,114,101,115,111,117,114,99,101,40,34,99,111,110,102,105,103,58,47,47,97,112,
       112,34,44,32,100,101,115,99,114,105,112,116,105,111,110,61,34,65,112,112,32,99,111,110,102,
       105,103,117,114,97,116,105,111,110,34,41,10,100,101,102,32,103,101,116,95,99,111,110,102,105,
       103,40,41,32,45,62,32,100,105,99,116,58,10,32,32,32,32,114,101,116,117,114,110,32,123,34,118,
       101,114,115,105,111,110,34,58,32,34,49,46,48,46,48,34,44,32,34,110,97,109,101,34,58,32,34,77,
       121,32,83,101,114,118,101,114,34,125,10,10,35,32,68,121,110,97,109,105,99,32,114,101,115,111,
       117,114,99,101,32,116,101,109,112,108,97,116,101,10,64,97,112,112,46,114,101,115,111,117,114,
       99,101,95,116,101,109,112,108,97,116,101,40,34,100,111,99,115,58,47,47,123,100,111,99,95,105,
       100,125,34,44,32,100,101,115,99,114,105,112,116,105,111,110,61,34,71,101,116,32,100,111,99,
       117,109,101,110,116,32,98,121,32,73,68,34,41,10,97,115,121,110,99,32,100,101,102,32,103,101,
       116,95,100,111,99,117,109,101,110,116,40,100,111,99,95,105,100,58,32,115,116,114,41,32,45,62,
       32,100,105,99,116,58,10,32,32,32,32,100,111,99,115,32,61,32,123,34,114,101,97,100,109,101,34,
       58,32,34,35,32,82,69,65,68,77,69,92,110,87,101,108,99,111,109,101,33,34,44,32,34,97,112,105,
       34,58,32,34,35,32,65,80,73,92,110,69,110,100,112,111,105,110,116,115,46,46,46,34,125,10,32,
       32,32,32,114,101,116,117,114,110,32,123,34,105,100,34,58,32,100,111,99,95,105,100,44,32,34,
       99,111,110,116,101,110,116,34,58,32,100,111,99,115,46,103,101,116,40,100,111,99,95,105,100,
       44,32,34,78,111,116,32,102,111,117,110,100,34,41,125,10,10,35,32,84,101,109,112,108,97,116,
       101,32,99,111,109,112,108,101,116,105,111,110,10,64,97,112,112,46,116,101,109,112,108,97,116,
       101,95,99,111,109,112,108,101,116,105,111,110,40,34,103,101,116,95,100,111,99,117,109,101,
       110,116,34,44,32,34,100,111,99,95,105,100,34,41,10,100,101,102,32,99,111,109,112,108,101,116,
       101,95,100,111,99,95,105,100,115,40,112,97,114,116,105,97,108,58,32,115,116,114,41,32,45,62,
       32,108,105,115,116,91,115,116,114,93,58,10,32,32,32,32,97,108,108,95,105,100,115,32,61,32,91,
       34,114,101,97,100,109,101,34,44,32,34,97,112,105,34,44,32,34,99,104,97,110,103,101,108,111,
       103,34,93,10,32,32,32,32,114,101,116,117,114,110,32,91,105,100,32,102,111,114,32,105,100,32,
       105,110,32,97,108,108,95,105,100,115,32,105,102,32,112,97,114,116,105,97,108,32,105,110,32,
       105,100,93,10,10,105,102,32,95,95,110,97,109,101,95,95,32,61,61,32,34,95,95,109,97,105,110,
       95,95,34,58,10,32,32,32,32,97,112,112,46,114,117,110,40,41,10>>]

\* The examples dict of get_example_code as the sequence of its items in insertion order.
examples ==
  <<
    <<<<115,105,109,112,108,101,45,116,111,111,108>>, examples_simple_tool>>,   \* "simple-tool"
    <<<<97,117,116,104,45,115,101,116,117,112>>, examples_auth_setup>>,   \* "auth-setup"
    <<<<114,101,115,111,117,114,99,101,45,116,101,109,112,108,97,116,101>>, examples_resource_template>>   \* "resource-template"
  >>

\* the list of docs_stats left behind when an example was added to the catalog
stats_available_examples_stale ==
  <<
    <<115,105,109,112,108,101,45,116,111,111,108>>,   \* "simple-tool"
    <<97,117,116,104,45,115,101,116,117,112>>   \* "auth-setup"
  >>

\* The available_examples list literal of docs_stats.
stats_available_examples ==
  <<
    <<115,105,109,112,108,101,45,116,111,111,108>>,   \* "simple-tool"
    <<97,117,116,104,45,115,101,116,117,112>>,   \* "auth-setup"
    <<114,101,115,111,117,114,99,101,45,116,101,109,112,108,97,116,101>>   \* "resource-template"
  >>

\* The examples list literal of complete_example_names.
completion_examples ==
  <<
    <<115,105,109,112,108,101,45,116,111,111,108>>,   \* "simple-tool"
    <<97,117,116,104,45,115,101,116,117,112>>,   \* "auth-setup"
    <<114,101,115,111,117,114,99,101,45,116,101,109,112,108,97,116,101>>   \* "resource-template"
  >>

\* text before {doc_id} in the not-found message: "Documentation '"
doc_error_prefix ==
    <<68,111,99,117,109,101,110,116,97,116,105,111,110,32,39>>

\* text after {doc_id} in the not-found message: "' not found"
doc_error_suffix ==
    <<39,32,110,111,116,32,102,111,117,110,100>>

\* text before {example_name} in the not-found message: "Example '"
example_error_prefix ==
    <<69,120,97,109,112,108,101,32,39>>

\* text after {example_name} in the not-found message: "' not found"
example_error_suffix ==
    <<39,32,110,111,116,32,102,111,117,110,100>>

\* the marker appended to every preview: "..."
preview_marker ==
    <<46,46,46>>

\* the slice bound of doc["content"][:200]
preview_length == 200

\* the sentinel for an empty feature list: "none"
features_none ==
    <<110,111,110,101>>

\* the separator of features.split: ","
features_separator ==
    <<44>>

\* setup header before {server_type}: "Build a NextMCP server of type: "
build_header_prefix ==
    <<66,117,105,108,100,32,97,32,78,101,120,116,77,67,80,32,115,101,114,118,101,114,32,111,102,32,
    116,121,112,101,58,32>>

\* setup header after {server_type}: "\n\nStep 1: Setup\n- Create app.py\n- Import: from nextmcp ..." (189 characters)
build_header_suffix ==
    <<10,10,83,116,101,112,32,49,58,32,83,101,116,117,112,10,45,32,67,114,101,97,116,101,32,97,112,
    112,46,112,121,10,45,32,73,109,112,111,114,116,58,32,102,114,111,109,32,110,101,120,116,109,99,
    112,32,105,109,112,111,114,116,32,78,101,120,116,77,67,80,10,45,32,73,110,105,116,105,97,108,
    105,122,101,58,32,97,112,112,32,61,32,78,101,120,116,77,67,80,40,34,121,111,117,114,45,115,101,
    114,118,101,114,45,110,97,109,101,34,44,32,100,101,115,99,114,105,112,116,105,111,110,61,34,46,
    46,46,34,41,10,10,83,116,101,112,32,50,58,32,73,109,112,108,101,109,101,110,116,32,112,114,105,
    109,105,116,105,118,101,115,32,98,97,115,101,100,32,111,110,32,115,101,114,118,101,114,32,116,
    121,112,101,58,10>>

\* archetype name: "tool-based"
server_type_tool_based ==
    <<116,111,111,108,45,98,97,115,101,100>>

\* archetype section: "\n- Add tools with @app.tool() decorator\n- Each tool shoul..." (140 characters)
section_tool_based ==
    <<10,45,32,65,100,100,32,116,111,111,108,115,32,119,105,116,104,32,64,97,112,112,46,116,111,111,
    108,40,41,32,100,101,99,111,114,97,116,111,114,10,45,32,69,97,99,104,32,116,111,111,108,32,115,
    104,111,117,108,100,32,104,97,118,101,32,99,108,101,97,114,32,100,111,99,115,116,114,105,110,
    103,115,10,45,32,82,101,116,117,114,110,32,74,83,79,78,45,115,101,114,105,97,108,105,122,97,98,
    108,101,32,100,97,116,97,10,45,32,72,97,110,100,108,101,32,101,114,114,111,114,115,32,103,114,
    97,99,101,102,117,108,108,121,10>>

\* archetype name: "documentation"
server_type_documentation ==
    <<100,111,99,117,109,101,110,116,97,116,105,111,110>>

\* archetype section: "\n- Add search tool with @app.tool()\n- Add resource templa..." (175 characters)
section_documentation ==
    <<10,45,32,65,100,100,32,115,101,97,114,99,104,32,116,111,111,108,32,119,105,116,104,32,64,97,
    112,112,46,116,111,111,108,40,41,10,45,32,65,100,100,32,114,101,115,111,117,114,99,101,32,116,
    101,109,112,108,97,116,101,115,32,119,105,116,104,32,64,97,112,112,46,114,101,115,111,117,114,
    99,101,95,116,101,109,112,108,97,116,101,40,41,10,45,32,65,100,100,32,112,114,111,109,112,116,
    115,32,102,111,114,32,99,111,109,109,111,110,32,119,111,114,107,102,108,111,119,115,32,119,105,
    116,104,32,64,97,112,112,46,112,114,111,109,112,116,40,41,10,45,32,73,110,99,108,117,100,101,32,
    115,116,97,116,105,115,116,105,99,115,32,114,101,115,111,117,114,99,101,10>>

\* archetype name: "api-wrapper"
server_type_api_wrapper ==
    <<97,112,105,45,119,114,97,112,112,101,114>>

\* archetype section: "\n- Create tools for each API endpoint\n- Add authenticatio..." (140 characters)
section_api_wrapper ==
    <<10,45,32,67,114,101,97,116,101,32,116,111,111,108,115,32,102,111,114,32,101,97,99,104,32,65,
    80,73,32,101,110,100,112,111,105,110,116,10,45,32,65,100,100,32,97,117,116,104,101,110,116,105,
    99,97,116,105,111,110,32,105,102,32,65,80,73,32,114,101,113,117,105,114,101,115,32,105,116,10,
    45,32,73,109,112,108,101,109,101,110,116,32,114,97,116,101,32,108,105,109,105,116,105,110,103,
    10,45,32,67,97,99,104,101,32,114,101,115,112,111,110,115,101,115,32,119,104,101,114,101,32,97,
    112,112,114,111,112,114,105,97,116,101,10>>

\* feature name: "auth"
feature_auth ==
    <<97,117,116,104>>

\* feature section: "\nStep 3: Add Authentication\n- Choose: APIKeyAuth, JWTAuth..." (149 characters)
section_auth ==
    <<10,83,116,101,112,32,51,58,32,65,100,100,32,65,117,116,104,101,110,116,105,99,97,116,105,111,
    110,10,45,32,67,104,111,111,115,101,58,32,65,80,73,75,101,121,65,117,116,104,44,32,74,87,84,65,
    117,116,104,44,32,111,114,32,82,66,65,67,65,117,116,104,10,45,32,65,100,100,32,107,101,121,115,
    47,116,111,107,101,110,115,32,102,111,114,32,116,101,115,116,32,117,115,101,114,115,10,45,32,65,
    112,112,108,121,32,109,105,100,100,108,101,119,97,114,101,58,32,97,112,112,46,97,100,100,95,109,
    105,100,100,108,101,119,97,114,101,40,97,117,116,104,41,10>>

\* feature name: "metrics"
feature_metrics ==
    <<109,101,116,114,105,99,115>>

\* feature section: "\nStep 4: Add Metrics\n- Import: from nextmcp.metrics impor..." (167 characters)
section_metrics ==
    <<10,83,116,101,112,32,52,58,32,65,100,100,32,77,101,116,114,105,99,115,10,45,32,73,109,112,111,
    114,116,58,32,102,114,111,109,32,110,101,120,116,109,99,112,46,109,101,116,114,105,99,115,32,
    105,109,112,111,114,116,32,80,114,111,109,101,116,104,101,117,115,77,101,116,114,105,99,115,10,
    45,32,73,110,105,116,105,97,108,105,122,101,58,32,109,101,116,114,105,99,115,32,61,32,80,114,
    111,109,101,116,104,101,117,115,77,101,116,114,105,99,115,40,41,10,45,32,65,100,100,32,109,105,
    100,100,108,101,119,97,114,101,58,32,97,112,112,46,97,100,100,95,109,105,100,100,108,101,119,97,
    114,101,40,109,101,116,114,105,99,115,41,10>>

\* closing section: "\nFinal Step: Run server\n- Add: if __name__ == \"__main__\..." (202 characters)
section_closing ==
    <<10,70,105,110,97,108,32,83,116,101,112,58,32,82,117,110,32,115,101,114,118,101,114,10,45,32,
    65,100,100,58,32,105,102,32,95,95,110,97,109,101,95,95,32,61,61,32,34,95,95,109,97,105,110,95,
    95,34,58,32,97,112,112,46,114,117,110,40,41,10,45,32,84,101,115,116,32,108,111,99,97,108,108,
    121,58,32,112,121,116,104,111,110,32,97,112,112,46,112,121,10,45,32,65,99,99,101,115,115,58,32,
    104,116,116,112,58,47,47,108,111,99,97,108,104,111,115,116,58,56,48,48,48,10,10,85,115,101,32,
    115,101,97,114,99,104,95,100,111,99,117,109,101,110,116,97,116,105,111,110,40,41,32,97,110,100,
    32,103,101,116,95,101,120,97,109,112,108,101,95,99,111,100,101,40,41,32,116,111,111,108,115,32,
    102,111,114,32,114,101,102,101,114,101,110,99,101,46,10>>

\* debug_steps["server-not-starting"]: "Debugging server startup issues:\n\n1. Check Python version..." (431 characters)
debug_steps_server_not_starting ==
    <<68,101,98,117,103,103,105,110,103,32,115,101,114,118,101,114,32,115,116,97,114,116,117,112,32,
    105,115,115,117,101,115,58,10,10,49,46,32,67,104,101,99,107,32,80,121,116,104,111,110,32,118,
    101,114,115,105,111,110,58,32,112,121,116,104,111,110,32,45,45,118,101,114,115,105,111,110,32,
    40,114,101,113,117,105,114,101,115,32,51,46,49,48,43,41,10,50,46,32,86,101,114,105,102,121,32,
    78,101,120,116,77,67,80,32,105,110,115,116,97,108,108,97,116,105,111,110,58,32,112,105,112,32,
    115,104,111,119,32,110,101,120,116,109,99,112,10,51,46,32,67,104,101,99,107,32,102,111,114,32,
    105,109,112,111,114,116,32,101,114,114,111,114,115,58,32,112,121,116,104,111,110,32,45,99,32,34,
    105,109,112,111,114,116,32,110,101,120,116,109,99,112,59,32,112,114,105,110,116,40,110,101,120,
    116,109,99,112,46,95,95,118,101,114,115,105,111,110,95,95,41,34,10,52,46,32,82,101,118,105,101,
    119,32,101,114,114,111,114,32,108,111,103,115,32,102,111,114,32,115,116,97,99,107,32,116,114,97,
    99,101,115,10,53,46,32,69,110,115,117,114,101,32,112,111,114,116,32,56,48,48,48,32,105,115,32,
    97,118,97,105,108,97,98,108,101,58,32,108,115,111,102,32,45,105,32,58,56,48,48,48,10,10,67,111,
    109,109,111,110,32,99,97,117,115,101,115,58,10,45,32,77,105,115,115,105,110,103,32,100,101,112,
    101,110,100,101,110,99,105,101,115,10,45,32,80,111,114,116,32,97,108,114,101,97,100,121,32,105,
    110,32,117,115,101,10,45,32,80,121,116,104,111,110,32,118,101,114,115,105,111,110,32,105,110,99,
    111,109,112,97,116,105,98,105,108,105,116,121,10,45,32,83,121,110,116,97,120,32,101,114,114,111,
    114,115,32,105,110,32,97,112,112,46,112,121,10>>

\* debug_steps["tool-not-working"]: "Debugging tool execution:\n\n1. Verify decorator is correct..." (438 characters)
debug_steps_tool_not_working ==
    <<68,101,98,117,103,103,105,110,103,32,116,111,111,108,32,101,120,101,99,117,116,105,111,110,58,
    10,10,49,46,32,86,101,114,105,102,121,32,100,101,99,111,114,97,116,111,114,32,105,115,32,99,111,
    114,114,101,99,116,58,32,64,97,112,112,46,116,111,111,108,40,41,10,50,46,32,67,104,101,99,107,
    32,102,117,110,99,116,105,111,110,32,115,105,103,110,97,116,117,114,101,32,104,97,115,32,116,
    121,112,101,32,104,105,110,116,115,10,51,46,32,69,110,115,117,114,101,32,114,101,116,117,114,
    110,32,116,121,112,101,32,105,115,32,74,83,79,78,45,115,101,114,105,97,108,105,122,97,98,108,
    101,10,52,46,32,84,101,115,116,32,102,117,110,99,116,105,111,110,32,105,110,100,101,112,101,110,
    100,101,110,116,108,121,58,32,112,121,116,104,111,110,32,45,99,32,34,102,114,111,109,32,97,112,
    112,32,105,109,112,111,114,116,32,109,121,95,116,111,111,108,59,32,112,114,105,110,116,40,109,
    121,95,116,111,111,108,40,39,116,101,115,116,39,41,41,34,10,53,46,32,82,101,118,105,101,119,32,
    115,101,114,118,101,114,32,108,111,103,115,32,102,111,114,32,101,120,99,101,112,116,105,111,110,
    115,10,10,67,111,109,109,111,110,32,99,97,117,115,101,115,58,10,45,32,77,105,115,115,105,110,
    103,32,116,121,112,101,32,104,105,110,116,115,10,45,32,82,101,116,117,114,110,105,110,103,32,
    110,111,110,45,74,83,79,78,32,116,121,112,101,115,32,40,111,98,106,101,99,116,115,44,32,100,97,
    116,101,116,105,109,101,44,32,101,116,99,46,41,10,45,32,85,110,99,97,117,103,104,116,32,101,120,
    99,101,112,116,105,111,110,115,32,105,110,32,116,111,111,108,32,99,111,100,101,10,45,32,73,110,
    99,111,114,114,101,99,116,32,97,114,103,117,109,101,110,116,32,110,97,109,101,115,10>>

\* debug_steps["auth-failing"]: "Debugging authentication:\n\n1. Verify middleware is added:..." (414 characters)
debug_steps_auth_failing ==
    <<68,101,98,117,103,103,105,110,103,32,97,117,116,104,101,110,116,105,99,97,116,105,111,110,58,
    10,10,49,46,32,86,101,114,105,102,121,32,109,105,100,100,108,101,119,97,114,101,32,105,115,32,
    97,100,100,101,100,58,32,97,112,112,46,97,100,100,95,109,105,100,100,108,101,119,97,114,101,40,
    97,117,116,104,41,10,50,46,32,67,104,101,99,107,32,65,80,73,32,107,101,121,47,116,111,107,101,
    110,32,102,111,114,109,97,116,10,51,46,32,82,101,118,105,101,119,32,97,117,116,104,32,108,111,
    103,115,32,102,111,114,32,114,101,106,101,99,116,105,111,110,32,114,101,97,115,111,110,115,10,
    52,46,32,84,101,115,116,32,119,105,116,104,32,99,117,114,108,58,32,99,117,114,108,32,45,72,32,
    34,65,117,116,104,111,114,105,122,97,116,105,111,110,58,32,66,101,97,114,101,114,32,84,79,75,69,
    78,34,32,104,116,116,112,58,47,47,108,111,99,97,108,104,111,115,116,58,56,48,48,48,47,104,101,
    97,108,116,104,10,53,46,32,69,110,115,117,114,101,32,97,117,116,104,32,109,105,100,100,108,101,
    119,97,114,101,32,105,115,32,98,101,102,111,114,101,32,111,116,104,101,114,32,109,105,100,100,
    108,101,119,97,114,101,10,10,67,111,109,109,111,110,32,99,97,117,115,101,115,58,10,45,32,87,114,
    111,110,103,32,116,111,107,101,110,32,102,111,114,109,97,116,10,45,32,69,120,112,105,114,101,
    100,32,74,87,84,32,116,111,107,101,110,115,10,45,32,77,105,100,100,108,101,119,97,114,101,32,
    111,114,100,101,114,32,105,110,99,111,114,114,101,99,116,10,45,32,77,105,115,115,105,110,103,32,
    97,117,116,104,32,104,101,97,100,101,114,32,105,110,32,114,101,113,117,101,115,116,10>>

\* debug_steps["deployment-error"]: "Debugging deployment issues:\n\n1. Check health endpoint: c..." (463 characters)
debug_steps_deployment_error ==
    <<68,101,98,117,103,103,105,110,103,32,100,101,112,108,111,121,109,101,110,116,32,105,115,115,
    117,101,115,58,10,10,49,46,32,67,104,101,99,107,32,104,101,97,108,116,104,32,101,110,100,112,
    111,105,110,116,58,32,99,117,114,108,32,104,116,116,112,58,47,47,121,111,117,114,45,97,112,112,
    46,99,111,109,47,104,101,97,108,116,104,10,50,46,32,82,101,118,105,101,119,32,100,101,112,108,
    111,121,109,101,110,116,32,108,111,103,115,10,51,46,32,86,101,114,105,102,121,32,101,110,118,
    105,114,111,110,109,101,110,116,32,118,97,114,105,97,98,108,101,115,32,97,114,101,32,115,101,
    116,10,52,46,32,69,110,115,117,114,101,32,99,111,114,114,101,99,116,32,80,121,116,104,111,110,
    32,118,101,114,115,105,111,110,32,105,110,32,114,117,110,116,105,109,101,10,53,46,32,67,104,101,
    99,107,32,68,111,99,107,101,114,102,105,108,101,32,105,102,32,117,115,105,110,103,32,99,111,110,
    116,97,105,110,101,114,115,10,10,67,111,109,109,111,110,32,99,97,117,115,101,115,58,10,45,32,77,
    105,115,115,105,110,103,32,101,110,118,105,114,111,110,109,101,110,116,32,118,97,114,105,97,98,
    108,101,115,10,45,32,73,110,99,111,114,114,101,99,116,32,80,79,82,84,32,98,105,110,100,105,110,
    103,10,45,32,72,101,97,108,116,104,32,99,104,101,99,107,32,116,105,109,101,111,117,116,10,45,32,
    68,101,112,101,110,100,101,110,99,105,101,115,32,110,111,116,32,105,110,115,116,97,108,108,101,
    100,10,45,32,70,105,108,101,32,112,97,116,104,115,32,105,110,99,111,114,114,101,99,116,32,105,
    110,32,112,114,111,100,117,99,116,105,111,110,10,10,85,115,101,32,103,101,116,95,102,117,108,
    108,95,100,111,99,40,34,100,101,112,108,111,121,109,101,110,116,34,41,32,102,111,114,32,100,101,
    116,97,105,108,101,100,32,100,101,112,108,111,121,109,101,110,116,32,103,117,105,100,101,46,10>>

\* The debug_steps dict of debug_prompt as the sequence of its items.
debug_steps ==
  <<
    <<<<115,101,114,118,101,114,45,110,111,116,45,115,116,97,114,116,105,110,103>>, debug_steps_server_not_starting>>,   \* "server-not-starting"
    <<<<116,111,111,108,45,110,111,116,45,119,111,114,107,105,110,103>>, debug_steps_tool_not_working>>,   \* "tool-not-working"
    <<<<97,117,116,104,45,102,97,105,108,105,110,103>>, debug_steps_auth_failing>>,   \* "auth-failing"
    <<<<100,101,112,108,111,121,109,101,110,116,45,101,114,114,111,114>>, debug_steps_deployment_error>>   \* "deployment-error"
  >>

\* fallback text before {issue_type}: "Debug steps for '"
debug_fallback_prefix ==
    <<68,101,98,117,103,32,115,116,101,112,115,32,102,111,114,32,39>>

\* fallback text after {issue_type}: "' not available. Search documentation for help."
debug_fallback_suffix ==
    <<39,32,110,111,116,32,97,118,97,105,108,97,98,108,101,46,32,83,101,97,114,99,104,32,100,111,99,
    117,109,101,110,116,97,116,105,111,110,32,102,111,114,32,104,101,108,112,46>>

\* literal part 1 of the f-string: "Learning path for: "
learn_text_1 ==
    <<76,101,97,114,110,105,110,103,32,112,97,116,104,32,102,111,114,58,32>>

\* literal part 2 of the f-string: " ("
learn_text_2 ==
    <<32,40>>

\* literal part 3 of the f-string: " style)\n\nStep 1: Get documentation\nUse: get_full_doc(\""
learn_text_3 ==
    <<32,115,116,121,108,101,41,10,10,83,116,101,112,32,49,58,32,71,101,116,32,100,111,99,117,109,
    101,110,116,97,116,105,111,110,10,85,115,101,58,32,103,101,116,95,102,117,108,108,95,100,111,99,
    40,34>>

\* literal part 4 of the f-string: "\")\n\nStep 2: Understand the concept\n- Read the full docu..." (603 characters)
learn_text_4 ==
    <<34,41,10,10,83,116,101,112,32,50,58,32,85,110,100,101,114,115,116,97,110,100,32,116,104,101,
    32,99,111,110,99,101,112,116,10,45,32,82,101,97,100,32,116,104,101,32,102,117,108,108,32,100,
    111,99,117,109,101,110,116,97,116,105,111,110,10,45,32,82,101,118,105,101,119,32,99,111,100,101,
    32,101,120,97,109,112,108,101,115,10,45,32,85,110,100,101,114,115,116,97,110,100,32,116,104,101,
    32,117,115,101,32,99,97,115,101,115,10,10,83,116,101,112,32,51,58,32,72,97,110,100,115,45,111,
    110,32,112,114,97,99,116,105,99,101,10,85,115,101,58,32,103,101,116,95,101,120,97,109,112,108,
    101,95,99,111,100,101,40,34,115,105,109,112,108,101,45,116,111,111,108,34,41,32,111,114,32,115,
    105,109,105,108,97,114,32,101,120,97,109,112,108,101,115,10,45,32,67,111,112,121,32,116,104,101,
    32,101,120,97,109,112,108,101,32,99,111,100,101,10,45,32,77,111,100,105,102,121,32,105,116,32,
    102,111,114,32,121,111,117,114,32,117,115,101,32,99,97,115,101,10,45,32,82,117,110,32,97,110,
    100,32,116,101,115,116,32,108,111,99,97,108,108,121,10,10,83,116,101,112,32,52,58,32,66,117,105,
    108,100,32,115,111,109,101,116,104,105,110,103,10,45,32,67,111,109,98,105,110,101,32,119,104,97,
    116,32,121,111,117,32,108,101,97,114,110,101,100,32,119,105,116,104,32,111,116,104,101,114,32,
    102,101,97,116,117,114,101,115,10,45,32,82,101,102,101,114,32,116,111,32,100,111,99,117,109,101,
    110,116,97,116,105,111,110,32,97,115,32,110,101,101,100,101,100,10,45,32,85,115,101,32,115,101,
    97,114,99,104,95,100,111,99,117,109,101,110,116,97,116,105,111,110,40,41,32,116,111,32,102,105,
    110,100,32,114,101,108,97,116,101,100,32,116,111,112,105,99,115,10,10,83,116,101,112,32,53,58,
    32,68,101,112,108,111,121,32,97,110,100,32,105,116,101,114,97,116,101,10,45,32,85,115,101,32,
    103,101,116,95,102,117,108,108,95,100,111,99,40,34,100,101,112,108,111,121,109,101,110,116,34,
    41,32,102,111,114,32,100,101,112,108,111,121,109,101,110,116,32,103,117,105,100,101,10,45,32,84,
    101,115,116,32,105,110,32,112,114,111,100,117,99,116,105,111,110,32,101,110,118,105,114,111,110,
    109,101,110,116,10,45,32,77,111,110,105,116,111,114,32,97,110,100,32,105,109,112,114,111,118,
    101,10,10,82,101,99,111,109,109,101,110,100,101,100,32,110,101,120,116,32,116,111,112,105,99,
    115,32,97,102,116,101,114,32>>

\* literal part 5 of the f-string: ":\n"
learn_text_5 ==
    <<58,10>>

\* literal part 6 of the f-string: "\n"
learn_text_6 ==
    <<10>>

\* the separator of ", ".join: ", "
learn_join_separator ==
    <<44,32>>

\* The hard-coded topic list of learn_prompt.
learn_topics ==
  <<
    <<116,111,111,108,115>>,   \* "tools"
    <<112,114,111,109,112,116,115>>,   \* "prompts"
    <<114,101,115,111,117,114,99,101,115>>,   \* "resources"
    <<100,101,112,108,111,121,109,101,110,116>>   \* "deployment"
  >>

(***************************************************************************)
(* Corpora and arguments.  The operations read DOCS as they find it, so    *)
(* they are explored on the table of src/app.py and on tables that hold    *)
(* the shapes the table of src/app.py does not: short contents, upper-case *)
(* tags, repeated and unordered categories, no document at all.            *)
(***************************************************************************)
\* A corpus with upper-case tags and titles, a repeated category, categories out of order,
\* and contents shorter than, equal to and longer than the preview slice.
corpus_mixed ==
  <<
    \* "b-doc": title "Beta Guide", category "zeta", tags ["API", "x1"], content "Short Text."
    <<<<98,45,100,111,99>>,
     [title |-> <<66,101,116,97,32,71,117,105,100,101>>,
      category |-> <<122,101,116,97>>,
      tags |-> <<<<65,80,73>>, <<120,49>>>>,
      content |->
        <<83,104,111,114,116,32,84,101,120,116,46>>]>>,
    \* "a-doc": title "alpha", category "guide", tags [], content of 50 characters
    <<<<97,45,100,111,99>>,
     [title |-> <<97,108,112,104,97>>,
      category |-> <<103,117,105,100,101>>,
      tags |-> <<>>,
      content |->
        <<48,49,50,51,52,53,54,55,56,57,48,49,50,51,52,53,54,55,56,57,48,49,50,51,52,53,54,55,56,57,
        48,49,50,51,52,53,54,55,56,57,48,49,50,51,52,53,54,55,56,57>>]>>,
    \* "c-doc": title "Gamma", category "zeta", tags ["api"], content of 200 characters
    <<<<99,45,100,111,99>>,
     [title |-> <<71,97,109,109,97>>,
      category |-> <<122,101,116,97>>,
      tags |-> <<<<97,112,105>>>>,
      content |->
        <<97,98,99,100,101,102,103,104,105,106,97,98,99,100,101,102,103,104,105,106,97,98,99,100,
        101,102,103,104,105,106,97,98,99,100,101,102,103,104,105,106,97,98,99,100,101,102,103,104,
        105,106,97,98,99,100,101,102,103,104,105,106,97,98,99,100,101,102,103,104,105,106,97,98,99,
        100,101,102,103,104,105,106,97,98,99,100,101,102,103,104,105,106,97,98,99,100,101,102,103,
        104,105,106,97,98,99,100,101,102,103,104,105,106,97,98,99,100,101,102,103,104,105,106,97,98,
        99,100,101,102,103,104,105,106,97,98,99,100,101,102,103,104,105,106,97,98,99,100,101,102,
        103,104,105,106,97,98,99,100,101,102,103,104,105,106,97,98,99,100,101,102,103,104,105,106,
        97,98,99,100,101,102,103,104,105,106,97,98,99,100,101,102,103,104,105,106,97,98,99,100,101,
        102,103,104,105,106>>]>>,
    \* "d-doc": title "Delta API", category "Guide", tags ["misc"], content of 201 characters
    <<<<100,45,100,111,99>>,
     [title |-> <<68,101,108,116,97,32,65,80,73>>,
      category |-> <<71,117,105,100,101>>,
      tags |-> <<<<109,105,115,99>>>>,
      content |->
        <<65,66,67,68,69,70,71,72,73,74,65,66,67,68,69,70,71,72,73,74,65,66,67,68,69,70,71,72,73,74,
        65,66,67,68,69,70,71,72,73,74,65,66,67,68,69,70,71,72,73,74,65,66,67,68,69,70,71,72,73,74,
        65,66,67,68,69,70,71,72,73,74,65,66,67,68,69,70,71,72,73,74,65,66,67,68,69,70,71,72,73,74,
        65,66,67,68,69,70,71,72,73,74,65,66,67,68,69,70,71,72,73,74,65,66,67,68,69,70,71,72,73,74,
        65,66,67,68,69,70,71,72,73,74,65,66,67,68,69,70,71,72,73,74,65,66,67,68,69,70,71,72,73,74,
        65,66,67,68,69,70,71,72,73,74,65,66,67,68,69,70,71,72,73,74,65,66,67,68,69,70,71,72,73,74,
        65,66,67,68,69,70,71,72,73,74,65,66,67,68,69,70,71,72,73,74,107>>]>>
  >>

\* A corpus with an empty title, content, category and tag, and a content of 199 characters.
corpus_edge ==
  <<
    \* "e": title "", category "", tags [""], content empty
    <<<<101>>,
     [title |-> <<>>,
      category |-> <<>>,
      tags |-> <<<<>>>>,
      content |->
        <<>>]>>,
    \* "tools": title "Tools", category "primitives", tags ["tools"], content of 199 characters
    <<<<116,111,111,108,115>>,
     [title |-> <<84,111,111,108,115>>,
      category |-> <<112,114,105,109,105,116,105,118,101,115>>,
      tags |-> <<<<116,111,111,108,115>>>>,
      content |->
        <<120,121,120,121,120,121,120,121,120,121,120,121,120,121,120,121,120,121,120,121,120,121,
        120,121,120,121,120,121,120,121,120,121,120,121,120,121,120,121,120,121,120,121,120,121,120,
        121,120,121,120,121,120,121,120,121,120,121,120,121,120,121,120,121,120,121,120,121,120,121,
        120,121,120,121,120,121,120,121,120,121,120,121,120,121,120,121,120,121,120,121,120,121,120,
        121,120,121,120,121,120,121,120,121,120,121,120,121,120,121,120,121,120,121,120,121,120,121,
        120,121,120,121,120,121,120,121,120,121,120,121,120,121,120,121,120,121,120,121,120,121,120,
        121,120,121,120,121,120,121,120,121,120,121,120,121,120,121,120,121,120,121,120,121,120,121,
        120,121,120,121,120,121,120,121,120,121,120,121,120,121,120,121,120,121,120,121,120,121,120,
        121,120,121,120,121,120,121,120,121,120,121,120,121,120,121,90>>]>>
  >>

\* Queries given to search_documentation.
Queries ==
  {
    <<>>,   \* ""
    <<116,111,111,108,115>>,   \* "tools"
    <<65,85,84,72>>,   \* "AUTH"
    <<68,111,99,107,101,114>>,   \* "Docker"
    <<122,122,122>>,   \* "zzz"
    <<97,112,105>>,   \* "api"
    <<88,49>>,   \* "X1"
    <<84,69,88,84>>   \* "TEXT"
  }

\* Queries given to the concurrently dispatched searches.
ConcurrentQueries ==
  {
    <<>>,   \* ""
    <<122,122,122>>   \* "zzz"
  }

\* Identifiers given to get_full_doc and get_doc_resource.
DocIds ==
  {
    <<116,111,111,108,115>>,   \* "tools"
    <<84,111,111,108,115>>,   \* "Tools"
    <<110,111,110,101,120,105,115,116,101,110,116>>,   \* "nonexistent"
    <<97,45,100,111,99>>,   \* "a-doc"
    <<101>>,   \* "e"
    <<>>   \* ""
  }

\* Names given to get_example_code and get_example_resource.
ExampleNames ==
  {
    <<115,105,109,112,108,101,45,116,111,111,108>>,   \* "simple-tool"
    <<97,117,116,104,45,115,101,116,117,112>>,   \* "auth-setup"
    <<114,101,115,111,117,114,99,101,45,116,101,109,112,108,97,116,101>>,   \* "resource-template"
    <<117,110,107,110,111,119,110,45,110,97,109,101>>,   \* "unknown-name"
    <<83,105,109,112,108,101,45,84,111,111,108>>   \* "Simple-Tool"
  }

\* Values of server_type.
ServerTypes ==
  {
    <<116,111,111,108,45,98,97,115,101,100>>,   \* "tool-based"
    <<100,111,99,117,109,101,110,116,97,116,105,111,110>>,   \* "documentation"
    <<97,112,105,45,119,114,97,112,112,101,114>>,   \* "api-wrapper"
    <<100,97,116,97,45,112,114,111,118,105,100,101,114>>,   \* "data-provider"
    <<117,110,107,110,111,119,110,45,116,121,112,101>>   \* "unknown-type"
  }

\* Values of features.
FeatureStrings ==
  {
    <<110,111,110,101>>,   \* "none"
    <<97,117,116,104>>,   \* "auth"
    <<109,101,116,114,105,99,115>>,   \* "metrics"
    <<97,117,116,104,44,109,101,116,114,105,99,115>>,   \* "auth,metrics"
    <<109,101,116,114,105,99,115,44,97,117,116,104>>,   \* "metrics,auth"
    <<114,97,116,101,45,108,105,109,105,116,105,110,103,44,119,101,98,115,111,99,107,101,116,115>>,   \* "rate-limiting,websockets"
    <<97,117,116,104,44,32,109,101,116,114,105,99,115>>,   \* "auth, metrics"
    <<>>   \* ""
  }

\* Values of issue_type.
IssueTypes ==
  {
    <<115,101,114,118,101,114,45,110,111,116,45,115,116,97,114,116,105,110,103>>,   \* "server-not-starting"
    <<116,111,111,108,45,110,111,116,45,119,111,114,107,105,110,103>>,   \* "tool-not-working"
    <<97,117,116,104,45,102,97,105,108,105,110,103>>,   \* "auth-failing"
    <<100,101,112,108,111,121,109,101,110,116,45,101,114,114,111,114>>,   \* "deployment-error"
    <<117,110,107,110,111,119,110,45,105,115,115,117,101>>   \* "unknown-issue"
  }

\* Values of topic.
Topics ==
  {
    <<116,111,111,108,115>>,   \* "tools"
    <<112,114,111,109,112,116,115>>,   \* "prompts"
    <<114,101,115,111,117,114,99,101,115>>,   \* "resources"
    <<100,101,112,108,111,121,109,101,110,116>>,   \* "deployment"
    <<97,117,116,104,101,110,116,105,99,97,116,105,111,110>>,   \* "authentication"
    <<84,111,111,108,115>>   \* "Tools"
  }

\* Values of learn_style.
LearnStyles ==
  {
    <<111,118,101,114,118,105,101,119>>,   \* "overview"
    <<104,97,110,100,115,45,111,110>>   \* "hands-on"
  }

\* Values of partial for the two completions.
Partials ==
  {
    <<>>,   \* ""
    <<116>>,   \* "t"
    <<97,117,116,104>>,   \* "auth"
    <<122,122,122>>   \* "zzz"
  }

\* Queries of the requests that are repeated.
ReplayQueries ==
  {
    <<116,111,111,108,115>>,   \* "tools"
    <<122,122,122>>   \* "zzz"
  }

\* Identifiers of the requests that are repeated.
ReplayDocIds ==
  {
    <<116,111,111,108,115>>,   \* "tools"
    <<110,111,110,101,120,105,115,116,101,110,116>>   \* "nonexistent"
  }

\* Example names of the requests that are repeated.
ReplayExampleNames ==
  {
    <<115,105,109,112,108,101,45,116,111,111,108>>,   \* "simple-tool"
    <<117,110,107,110,111,119,110,45,110,97,109,101>>   \* "unknown-name"
  }

\* Values of server_type of the requests that are repeated.
ReplayServerTypes ==
  {
    <<116,111,111,108,45,98,97,115,101,100>>,   \* "tool-based"
    <<117,110,107,110,111,119,110,45,116,121,112,101>>   \* "unknown-type"
  }

\* Values of features of the requests that are repeated.
ReplayFeatureStrings ==
  {
    <<97,117,116,104,44,109,101,116,114,105,99,115>>,   \* "auth,metrics"
    <<110,111,110,101>>   \* "none"
  }

\* Values of issue_type of the requests that are repeated.
ReplayIssueTypes ==
  {
    <<97,117,116,104,45,102,97,105,108,105,110,103>>,   \* "auth-failing"
    <<117,110,107,110,111,119,110,45,105,115,115,117,101>>   \* "unknown-issue"
  }

\* Values of topic of the requests that are repeated.
ReplayTopics ==
  {
    <<116,111,111,108,115>>,   \* "tools"
    <<97,117,116,104,101,110,116,105,99,97,116,105,111,110>>   \* "authentication"
  }

\* Values of learn_style of the requests that are repeated.
ReplayLearnStyles ==
  {
    <<111,118,101,114,118,105,101,119>>   \* "overview"
  }

\* Values of partial of the requests that are repeated.
ReplayPartials ==
  {
    <<116>>   \* "t"
  }

Corpora == {DOCS_literal, corpus_mixed, corpus_edge, <<>>}

Threads == 1..NumThreads

(***************************************************************************)
(* Python str operations.                                                  *)
(***************************************************************************)
\* s.lower() on ASCII text
Lower(s) == [i \in 1..Len(s) |-> IF s[i] \in 65..90 THEN s[i] + 32 ELSE s[i]]

\* sub in s
Contains(sub, s) == \E i \in 0..(Len(s) - Len(sub)) : SubSeq(s, i + 1, i + Len(sub)) = sub

\* s[:n]
Prefix(s, n) == SubSeq(s, 1, IF n < Len(s) THEN n ELSE Len(s))

\* a < b in Python's ordering of str (by character code, a proper prefix first)
RECURSIVE StrLess(_, _)
StrLess(a, b) ==
  IF b = <<>> THEN FALSE
  ELSE IF a = <<>> THEN TRUE
  ELSE IF a[1] # b[1] THEN a[1] < b[1]
  ELSE StrLess(Tail(a), Tail(b))

\* key in d, for a dict d
HasKey(d, key) == \E i \in 1..Len(d) : d[i][1] = key

\* d[key], for a dict d that has the key
Lookup(d, key) == d[CHOOSE i \in 1..Len(d) : d[i][1] = key][2]

\* list(d.keys())
Keys(d) == [i \in 1..Len(d) |-> d[i][1]]

(***************************************************************************)
(* State.                                                                  *)
(***************************************************************************)
VARIABLES
  DOCS,       \* the DOCS dict
  STATS,      \* the STATS dict
  call,       \* the operation the host invoked last and its arguments
  ret,        \* the value that operation returned
  invoked,    \* the number of search_documentation invocations begun
  completed,  \* the number of search_documentation invocations that returned
  thread,     \* per host thread: where it is in search_documentation, and its locals
  memo        \* a call the host kept with the value it returned and the counter at that time

vars == <<DOCS, STATS, call, ret, invoked, completed, thread, memo>>

idle == [pc |-> "idle", query |-> <<>>, loaded |-> 0]

Init ==
  /\ DOCS \in Corpora
  /\ STATS = [total_searches |-> 0, total_docs |-> Len(DOCS)]
  /\ call = [op |-> "none", args |-> <<>>]
  /\ ret = <<>>
  /\ invoked = 0
  /\ completed = 0
  /\ thread = [t \in Threads |-> idle]
  /\ memo = [call |-> [op |-> "none", args |-> <<>>], ret |-> <<>>, total_searches |-> 0]

(***************************************************************************)
(* search_documentation                                                    *)
(***************************************************************************)
\* the condition with the tags lowered like the title and the content
search_matches_lowering_tags(query_lower, doc) ==
  \/ Contains(query_lower, Lower(doc.title))
  \/ Contains(query_lower, Lower(doc.content))
  \/ \E i \in 1..Len(doc.tags) : Contains(query_lower, Lower(doc.tags[i]))

\* the condition of the if statement in the loop over DOCS.items()
search_matches(query_lower, doc) ==
  \/ Contains(query_lower, Lower(doc.title))
  \/ Contains(query_lower, Lower(doc.content))
  \/ \E i \in 1..Len(doc.tags) : Contains(query_lower, doc.tags[i])

\* the dict with the marker appended only to a content that was cut
search_result_marking_cut_only(key, doc) ==
  [id |-> key,
   title |-> doc.title,
   category |-> doc.category,
   tags |-> doc.tags,
   preview |-> IF Len(doc.content) > preview_length
               THEN Prefix(doc.content, preview_length) \o preview_marker
               ELSE doc.content]

\* the dict appended to results
search_result(key, doc) ==
  [id |-> key,
   title |-> doc.title,
   category |-> doc.category,
   tags |-> doc.tags,
   preview |-> Prefix(doc.content, preview_length) \o preview_marker]

\* the loop over DOCS.items(), from item i on
RECURSIVE search_loop(_, _, _)
search_loop(docs, query_lower, i) ==
  IF i > Len(docs) THEN <<>>
  ELSE (IF search_matches(query_lower, docs[i][2])
        THEN <<search_result(docs[i][1], docs[i][2])>>
        ELSE <<>>) \o search_loop(docs, query_lower, i + 1)

\* the value search_documentation returns
search_documentation_return(docs, query) ==
  LET results == search_loop(docs, Lower(query), 1)
  IN  [query |-> query, count |-> Len(results), results |-> results]

\* STATS["total_searches"] += 1, as one step
increment_total_searches(stats) == [stats EXCEPT !.total_searches = @ + 1]

\* search_documentation reporting the running search counter as count
search_documentation_reporting_total(query) ==
  /\ invoked < MaxSearches
  /\ STATS' = increment_total_searches(STATS)
  /\ ret' = [search_documentation_return(DOCS, query) EXCEPT !.count = STATS'.total_searches]
  /\ call' = [op |-> "search_documentation", args |-> <<query>>]
  /\ invoked' = invoked + 1
  /\ completed' = completed + 1
  /\ UNCHANGED <<DOCS, thread, memo>>

\* search_documentation with the counter raised only when a document matches
search_documentation_counting_hits(query) ==
  /\ invoked < MaxSearches
  /\ STATS' = IF search_documentation_return(DOCS, query).count > 0
              THEN increment_total_searches(STATS)
              ELSE STATS
  /\ ret' = search_documentation_return(DOCS, query)
  /\ call' = [op |-> "search_documentation", args |-> <<query>>]
  /\ invoked' = invoked + 1
  /\ completed' = completed + 1
  /\ UNCHANGED <<DOCS, thread, memo>>

\* the whole handler, dispatched one request at a time
search_documentation(query) ==
  /\ invoked < MaxSearches
  /\ STATS' = increment_total_searches(STATS)
  /\ ret' = search_documentation_return(DOCS, query)
  /\ call' = [op |-> "search_documentation", args |-> <<query>>]
  /\ invoked' = invoked + 1
  /\ completed' = completed + 1
  /\ UNCHANGED <<DOCS, thread, memo>>

(***************************************************************************)
(* get_full_doc and the docs://{doc_id} resource template                  *)
(***************************************************************************)
\* get_full_doc looking the identifier up without regard to case
get_full_doc_return_ignoring_case(docs, doc_id) ==
  IF ~HasKey(docs, Lower(doc_id))
  THEN [error |-> doc_error_prefix \o doc_id \o doc_error_suffix]
  ELSE Lookup(docs, Lower(doc_id)) @@ [id |-> doc_id]

\* the value get_full_doc returns: {"id": doc_id, **DOCS[doc_id]} lets the
\* document's own fields win over the id given first
get_full_doc_return(docs, doc_id) ==
  IF ~HasKey(docs, doc_id)
  THEN [error |-> doc_error_prefix \o doc_id \o doc_error_suffix]
  ELSE Lookup(docs, doc_id) @@ [id |-> doc_id]

\* get_full_doc counted as a search
get_full_doc_counted(doc_id) ==
  /\ ret' = get_full_doc_return(DOCS, doc_id)
  /\ call' = [op |-> "get_full_doc", args |-> <<doc_id>>]
  /\ STATS' = increment_total_searches(STATS)
  /\ UNCHANGED <<DOCS, invoked, completed, thread, memo>>

get_full_doc(doc_id) ==
  /\ ret' = get_full_doc_return(DOCS, doc_id)
  /\ call' = [op |-> "get_full_doc", args |-> <<doc_id>>]
  /\ UNCHANGED <<DOCS, STATS, invoked, completed, thread, memo>>

\* the value get_doc_resource returns
get_doc_resource_return(docs, doc_id) ==
  IF ~HasKey(docs, doc_id)
  THEN [error |-> doc_error_prefix \o doc_id \o doc_error_suffix]
  ELSE Lookup(docs, doc_id) @@ [id |-> doc_id]

get_doc_resource(doc_id) ==
  /\ ret' = get_doc_resource_return(DOCS, doc_id)
  /\ call' = [op |-> "get_doc_resource", args |-> <<doc_id>>]
  /\ UNCHANGED <<DOCS, STATS, invoked, completed, thread, memo>>

(***************************************************************************)
(* list_categories                                                         *)
(***************************************************************************)
\* {doc["category"] for doc in DOCS.values()}
category_set(docs) == {docs[i][2].category : i \in 1..Len(docs)}

\* sorted(S), for a set S of str
RECURSIVE sorted(_)
sorted(S) ==
  IF S = {} THEN <<>>
  ELSE LET least == CHOOSE x \in S : \A y \in S \ {x} : StrLess(x, y)
       IN  <<least>> \o sorted(S \ {least})

\* list_categories sorting the list of categories instead of their set
list_categories_return_keeping_duplicates(docs) ==
  SortSeq([i \in 1..Len(docs) |-> docs[i][2].category], StrLess)

\* the value list_categories returns
list_categories_return(docs) == sorted(category_set(docs))

list_categories ==
  /\ ret' = list_categories_return(DOCS)
  /\ call' = [op |-> "list_categories", args |-> <<>>]
  /\ UNCHANGED <<DOCS, STATS, invoked, completed, thread, memo>>

(***************************************************************************)
(* get_example_code and the examples://{example_name} resource template    *)
(***************************************************************************)
\* the value get_example_code returns
get_example_code_return(example_name) ==
  IF ~HasKey(examples, example_name)
  THEN [error |-> example_error_prefix \o example_name \o example_error_suffix,
        available |-> Keys(examples)]
  ELSE Lookup(examples, example_name)

get_example_code(example_name) ==
  /\ ret' = get_example_code_return(example_name)
  /\ call' = [op |-> "get_example_code", args |-> <<example_name>>]
  /\ UNCHANGED <<DOCS, STATS, invoked, completed, thread, memo>>

\* get_example_resource returns what get_example_code returns
get_example_resource(example_name) ==
  /\ ret' = get_example_code_return(example_name)
  /\ call' = [op |-> "get_example_resource", args |-> <<example_name>>]
  /\ UNCHANGED <<DOCS, STATS, invoked, completed, thread, memo>>

(***************************************************************************)
(* build_server_prompt                                                     *)
(***************************************************************************)
\* the least i such that sep is found at s[i+1..], or 0 if sep is not in s
Find(s, sep) ==
  IF Contains(sep, s)
  THEN 1 + CHOOSE i \in 0..(Len(s) - Len(sep)) :
             /\ SubSeq(s, i + 1, i + Len(sep)) = sep
             /\ \A j \in 0..(i - 1) : SubSeq(s, j + 1, j + Len(sep)) # sep
  ELSE 0

\* s.split(sep), for a non-empty sep
RECURSIVE Split(_, _)
Split(s, sep) ==
  LET at == Find(s, sep)
  IN  IF at = 0 THEN <<s>>
      ELSE <<SubSeq(s, 1, at - 1)>> \o Split(SubSeq(s, at + Len(sep), Len(s)), sep)

\* x in list
InList(x, list) == \E i \in 1..Len(list) : list[i] = x

\* feature_list = features.split(",") if features != "none" else []
feature_list_of(features) ==
  IF features # features_none THEN Split(features, features_separator) ELSE <<>>

\* the if / elif / elif on server_type
archetype_section(server_type) ==
  IF server_type = server_type_tool_based THEN section_tool_based
  ELSE IF server_type = server_type_documentation THEN section_documentation
  ELSE IF server_type = server_type_api_wrapper THEN section_api_wrapper
  ELSE <<>>

\* the feature sections emitted in the order the features were given
RECURSIVE feature_sections_in_given_order(_)
feature_sections_in_given_order(feature_list) ==
  IF feature_list = <<>> THEN <<>>
  ELSE (IF feature_list[1] = feature_auth THEN section_auth
        ELSE IF feature_list[1] = feature_metrics THEN section_metrics
        ELSE <<>>) \o feature_sections_in_given_order(Tail(feature_list))

\* the two if statements on feature_list, in the order of the source
feature_sections(feature_list) ==
  (IF InList(feature_auth, feature_list) THEN section_auth ELSE <<>>)
  \o (IF InList(feature_metrics, feature_list) THEN section_metrics ELSE <<>>)

\* the text build_server_prompt returns
build_server_prompt_return(server_type, features) ==
  build_header_prefix \o server_type \o build_header_suffix
  \o archetype_section(server_type)
  \o feature_sections(feature_list_of(features))
  \o section_closing

build_server_prompt(server_type, features) ==
  /\ ret' = build_server_prompt_return(server_type, features)
  /\ call' = [op |-> "build_server_prompt", args |-> <<server_type, features>>]
  /\ UNCHANGED <<DOCS, STATS, invoked, completed, thread, memo>>

(***************************************************************************)
(* debug_prompt                                                            *)
(***************************************************************************)
\* debug_steps.get(issue_type, f"Debug steps for '{issue_type}' not available. ...")
debug_prompt_return(issue_type) ==
  IF HasKey(debug_steps, issue_type)
  THEN Lookup(debug_steps, issue_type)
  ELSE debug_fallback_prefix \o issue_type \o debug_fallback_suffix

debug_prompt(issue_type) ==
  /\ ret' = debug_prompt_return(issue_type)
  /\ call' = [op |-> "debug_prompt", args |-> <<issue_type>>]
  /\ UNCHANGED <<DOCS, STATS, invoked, completed, thread, memo>>

(***************************************************************************)
(* learn_prompt                                                            *)
(***************************************************************************)
\* sep.join(list)
RECURSIVE Join(_, _)
Join(sep, list) ==
  IF list = <<>> THEN <<>>
  ELSE IF Len(list) = 1 THEN list[1]
  ELSE list[1] \o sep \o Join(sep, Tail(list))

\* the topic list without the filter on topic
learn_next_topics_unfiltered(topic) == learn_topics

\* [t for t in ["tools", "prompts", "resources", "deployment"] if t != topic]
learn_next_topics(topic) == SelectSeq(learn_topics, LAMBDA t : t # topic)

\* the text learn_prompt returns
learn_prompt_return(topic, learn_style) ==
  learn_text_1 \o topic \o learn_text_2 \o learn_style \o learn_text_3 \o topic
  \o learn_text_4 \o topic \o learn_text_5
  \o Join(learn_join_separator, learn_next_topics(topic)) \o learn_text_6

learn_prompt(topic, learn_style) ==
  /\ ret' = learn_prompt_return(topic, learn_style)
  /\ call' = [op |-> "learn_prompt", args |-> <<topic, learn_style>>]
  /\ UNCHANGED <<DOCS, STATS, invoked, completed, thread, memo>>

(***************************************************************************)
(* The docs://stats resource and the template completions                  *)
(***************************************************************************)
\* the value docs_stats returns
docs_stats_return(stats, docs) ==
  [total_docs |-> stats.total_docs,
   total_searches |-> stats.total_searches,
   categories |-> list_categories_return(docs),
   available_examples |-> stats_available_examples]

docs_stats ==
  /\ ret' = docs_stats_return(STATS, DOCS)
  /\ call' = [op |-> "docs_stats", args |-> <<>>]
  /\ UNCHANGED <<DOCS, STATS, invoked, completed, thread, memo>>

\* [doc_id for doc_id in DOCS.keys() if partial in doc_id]
complete_doc_ids_return(docs, partial) ==
  SelectSeq(Keys(docs), LAMBDA doc_id : Contains(partial, doc_id))

complete_doc_ids(partial) ==
  /\ ret' = complete_doc_ids_return(DOCS, partial)
  /\ call' = [op |-> "complete_doc_ids", args |-> <<partial>>]
  /\ UNCHANGED <<DOCS, STATS, invoked, completed, thread, memo>>

\* [ex for ex in examples if partial in ex]
complete_example_names_return(partial) ==
  SelectSeq(completion_examples, LAMBDA ex : Contains(partial, ex))

complete_example_names(partial) ==
  /\ ret' = complete_example_names_return(partial)
  /\ call' = [op |-> "complete_example_names", args |-> <<partial>>]
  /\ UNCHANGED <<DOCS, STATS, invoked, completed, thread, memo>>

(***************************************************************************)
(* Requests dispatched one at a time                                       *)
(***************************************************************************)
Next ==
  \/ \E query \in Queries : search_documentation(query)
  \/ \E doc_id \in DocIds : get_full_doc(doc_id)
  \/ list_categories
  \/ \E example_name \in ExampleNames : get_example_code(example_name)
  \/ \E server_type \in ServerTypes, features \in FeatureStrings :
       build_server_prompt(server_type, features)
  \/ \E issue_type \in IssueTypes : debug_prompt(issue_type)
  \/ \E topic \in Topics, learn_style \in LearnStyles : learn_prompt(topic, learn_style)
  \/ docs_stats
  \/ \E doc_id \in DocIds : get_doc_resource(doc_id)
  \/ \E example_name \in ExampleNames : get_example_resource(example_name)
  \/ \E partial \in Partials : complete_doc_ids(partial)
  \/ \E partial \in Partials : complete_example_names(partial)

Spec == Init /\ [][Next]_vars

(***************************************************************************)
(* search_documentation dispatched on several host threads.  The statement *)
(* STATS["total_searches"] += 1 reads the item, adds one and stores the    *)
(* item; nothing in src/app.py holds a lock around it, so another thread   *)
(* can run between the read and the store.  The rest of the handler reads  *)
(* only DOCS, which no handler writes.                                     *)
(***************************************************************************)
\* thread t enters the handler and reads STATS["total_searches"]
search_load(t, query) ==
  /\ thread[t].pc = "idle"
  /\ invoked < MaxSearches
  /\ thread' = [thread EXCEPT ![t] = [pc |-> "loaded", query |-> query,
                                      loaded |-> STATS.total_searches]]
  /\ invoked' = invoked + 1
  /\ UNCHANGED <<DOCS, STATS, call, ret, completed, memo>>

\* thread t stores the value it read plus one, scans DOCS and returns
search_store(t) ==
  /\ thread[t].pc = "loaded"
  /\ STATS' = [STATS EXCEPT !.total_searches = thread[t].loaded + 1]
  /\ ret' = search_documentation_return(DOCS, thread[t].query)
  /\ call' = [op |-> "search_documentation", args |-> <<thread[t].query>>]
  /\ completed' = completed + 1
  /\ thread' = [thread EXCEPT ![t] = idle]
  /\ UNCHANGED <<DOCS, invoked, memo>>

\* the stats resource read while searches are in progress
concurrent_docs_stats ==
  /\ ret' = docs_stats_return(STATS, DOCS)
  /\ call' = [op |-> "docs_stats", args |-> <<>>]
  /\ UNCHANGED <<DOCS, STATS, invoked, completed, thread, memo>>

ConcNext ==
  \/ \E t \in Threads, query \in ConcurrentQueries : search_load(t, query)
  \/ \E t \in Threads : search_store(t)
  \/ concurrent_docs_stats

ConcSpec == Init /\ [][ConcNext]_vars

(***************************************************************************)
(* Requests dispatched one at a time by a host that keeps a response and   *)
(* later repeats the request.  From a state with a given DOCS every state  *)
(* with a larger or equal counter is reachable, so any two states of the   *)
(* server lie on one behaviour.                                            *)
(***************************************************************************)
\* the host keeps the last call, the value it returned and the counter it saw
host_keeps_response ==
  /\ call.op # "none"
  /\ memo' = [call |-> call, ret |-> ret, total_searches |-> STATS.total_searches]
  /\ UNCHANGED <<DOCS, STATS, call, ret, invoked, completed, thread>>

ReplayNext ==
  \/ \E query \in ReplayQueries : search_documentation(query)
  \/ \E doc_id \in ReplayDocIds : get_full_doc(doc_id)
  \/ list_categories
  \/ \E example_name \in ReplayExampleNames : get_example_code(example_name)
  \/ \E server_type \in ReplayServerTypes, features \in ReplayFeatureStrings :
       build_server_prompt(server_type, features)
  \/ \E issue_type \in ReplayIssueTypes : debug_prompt(issue_type)
  \/ \E topic \in ReplayTopics, learn_style \in ReplayLearnStyles :
       learn_prompt(topic, learn_style)
  \/ docs_stats
  \/ \E doc_id \in ReplayDocIds : get_doc_resource(doc_id)
  \/ \E example_name \in ReplayExampleNames : get_example_resource(example_name)
  \/ \E partial \in ReplayPartials : complete_doc_ids(partial)
  \/ \E partial \in ReplayPartials : complete_example_names(partial)
  \/ host_keeps_response

ReplaySpec == Init /\ [][ReplayNext]_vars

(***************************************************************************)
(* Properties                                                              *)
(***************************************************************************)
\* C1: starting from total_searches = 0, after N invocations of
\* search_documentation (whatever the queries, matching or not) total_searches
\* is N and docs_stats reports N; every search raises the counter by exactly 1
\* and no step lowers it.
C1_CounterEqualsInvocations ==
  /\ [](/\ STATS.total_searches = invoked
        /\ call.op = "docs_stats" => ret.total_searches = invoked)
  /\ [][/\ STATS'.total_searches >= STATS.total_searches
        /\ call'.op = "search_documentation" =>
             STATS'.total_searches = STATS.total_searches + 1]_vars

\* two searches were made and the stats resource then reported 2
C1_Witness ==
  /\ call.op = "docs_stats"
  /\ invoked = 2
  /\ ret.total_searches = 2

\* C2: when searches run concurrently no update of total_searches is lost:
\* once every search that began has returned, the counter has grown by the
\* number of searches.
C2_NoLostUpdate ==
  (\A t \in Threads : thread[t].pc = "idle") => STATS.total_searches = completed

\* C3: the only state change an operation makes is search_documentation's
\* increment of total_searches; no operation changes the corpus or total_docs,
\* and total_docs is the size of the corpus in every state.
C3_OnlySearchChangesState ==
  /\ [](STATS.total_docs = Len(DOCS))
  /\ [][/\ DOCS' = DOCS
        /\ STATS'.total_docs = STATS.total_docs
        /\ DOMAIN STATS' = DOMAIN STATS
        /\ call'.op # "search_documentation" => STATS' = STATS
        /\ call'.op = "search_documentation" =>
             STATS'.total_searches = STATS.total_searches + 1]_vars

\* get_full_doc found a document after two searches and left the counter at 2
C3_Witness ==
  /\ call.op = "get_full_doc"
  /\ "title" \in DOMAIN ret
  /\ invoked = 2
  /\ STATS.total_searches = 2
\* the set of elements of a sequence
Range(seq) == {seq[i] : i \in 1..Len(seq)}

\* C4: search_documentation(q).results is the subsequence of the corpus, in
\* corpus order, of the documents for which lower(q) is a substring of the
\* lowered title, of the lowered content or of a tag as stored; nothing else is
\* returned, nothing twice; count is the length of results; the empty query
\* returns every document in corpus order.
C4_SearchResults ==
  call.op = "search_documentation" =>
    LET q == call.args[1]
        ids == [i \in 1..Len(ret.results) |-> ret.results[i].id]
        position(key) == CHOOSE d \in 1..Len(DOCS) : DOCS[d][1] = key
        hit(doc) ==
          \/ Contains(Lower(q), Lower(doc.title))
          \/ Contains(Lower(q), Lower(doc.content))
          \/ \E tag \in Range(doc.tags) : Contains(Lower(q), tag)
    IN  /\ ret.query = q
        /\ ret.count = Len(ret.results)
        /\ \A i \in 1..Len(ids) : HasKey(DOCS, ids[i])
        /\ \A i, j \in 1..Len(ids) : i < j => position(ids[i]) < position(ids[j])
        /\ \A d \in 1..Len(DOCS) : (DOCS[d][1] \in Range(ids)) <=> hit(DOCS[d][2])
        /\ q = <<>> => ids = Keys(DOCS)

\* the query "api" returned two of the four documents of a corpus whose first
\* document carries the tag "API"
C4_Witness ==
  /\ call.op = "search_documentation"
  /\ call.args[1] = <<97,112,105>>
  /\ Len(DOCS) = 4
  /\ <<65,80,73>> \in Range(DOCS[1][2].tags)
  /\ ret.count = 2

\* C5: get_full_doc(doc_id) returns, for a doc_id that is a key of the corpus
\* as written, a record whose id is doc_id and whose title, content, category
\* and tags are the stored document's, with no error field; for any other
\* doc_id a record with an error field whose message embeds doc_id and with no
\* title field.
C5_GetFullDoc ==
  call.op = "get_full_doc" =>
    LET doc_id == call.args[1]
    IN  IF \E d \in 1..Len(DOCS) : DOCS[d][1] = doc_id
        THEN \A d \in 1..Len(DOCS) :
               DOCS[d][1] = doc_id =>
                 /\ DOMAIN ret = {"id", "title", "content", "category", "tags"}
                 /\ ret.id = doc_id
                 /\ ret.title = DOCS[d][2].title
                 /\ ret.content = DOCS[d][2].content
                 /\ ret.category = DOCS[d][2].category
                 /\ ret.tags = DOCS[d][2].tags
        ELSE /\ "error" \in DOMAIN ret
             /\ "title" \notin DOMAIN ret
             /\ Contains(doc_id, ret.error)

\* "Tools" was asked of a corpus that has the key "tools" and was not found
C5_Witness ==
  /\ call.op = "get_full_doc"
  /\ call.args[1] = <<84,111,111,108,115>>
  /\ HasKey(DOCS, <<116,111,111,108,115>>)
  /\ "error" \in DOMAIN ret

\* C6: for a name that is not a key of the example catalog get_example_code
\* returns an error field and an available list holding every valid name
\* exactly once and not the name asked for; for a key it returns that entry's
\* description and code and no error field.  The names in available are the
\* names docs_stats reports as available_examples and the names the
\* example-name completion draws from.
C6_ExampleCatalog ==
  LET valid == {examples[i][1] : i \in 1..Len(examples)}
  IN  /\ call.op = "get_example_code" =>
           LET name == call.args[1]
           IN  IF name \notin valid
               THEN /\ "error" \in DOMAIN ret
                    /\ Range(ret.available) = valid
                    /\ Len(ret.available) = Cardinality(valid)
                    /\ name \notin Range(ret.available)
               ELSE /\ DOMAIN ret = {"description", "code"}
                    /\ \A i \in 1..Len(examples) :
                         examples[i][1] = name =>
                           /\ ret.description = examples[i][2].description
                           /\ ret.code = examples[i][2].code
      /\ call.op = "docs_stats" => Range(ret.available_examples) = valid
      /\ call.op = "complete_example_names" =>
           Range(ret) = {name \in valid : Contains(call.args[1], name)}

\* "unknown-name" was asked for and the three names came back
C6_Witness ==
  /\ call.op = "get_example_code"
  /\ call.args[1] = <<117,110,107,110,111,119,110,45,110,97,109,101>>
  /\ "available" \in DOMAIN ret
  /\ Len(ret.available) = 3

\* a sequence of str in strictly ascending order
StrictlyAscending(seq) == \A i \in 1..(Len(seq) - 1) : StrLess(seq[i], seq[i + 1])

\* C7: list_categories() is sorted ascending, has no duplicates, and its
\* elements are the category values of the documents now in the corpus; the
\* categories field of docs_stats is the same sequence.
C7_Categories ==
  LET present == {DOCS[d][2].category : d \in 1..Len(DOCS)}
  IN  /\ call.op = "list_categories" =>
           /\ StrictlyAscending(ret)
           /\ Range(ret) = present
      /\ call.op = "docs_stats" =>
           /\ StrictlyAscending(ret.categories)
           /\ Range(ret.categories) = present

\* list_categories returned at least three categories, fewer than there are
\* documents
C7_Witness ==
  /\ call.op = "list_categories"
  /\ Len(ret) >= 3
  /\ Len(ret) < Len(DOCS)

\* the position of the first occurrence of part in text, 0 if there is none
PositionOf(part, text) ==
  IF Contains(part, text)
  THEN CHOOSE i \in 1..Len(text) :
         /\ i + Len(part) - 1 <= Len(text)
         /\ SubSeq(text, i, i + Len(part) - 1) = part
         /\ \A j \in 1..(i - 1) : SubSeq(text, j, j + Len(part) - 1) # part
  ELSE 0

\* the three archetype sections, by server_type
ArchetypeSections ==
  {<<server_type_tool_based, section_tool_based>>,
   <<server_type_documentation, section_documentation>>,
   <<server_type_api_wrapper, section_api_wrapper>>}

\* C8: build_server_prompt puts its sections in one order: the setup header,
\* the archetype section (for tool-based, documentation and api-wrapper only),
\* the auth section iff "auth" is an element of the comma-split features, the
\* metrics section iff "metrics" is, the closing section.  Feature lists with
\* the same elements give the same text, "none" gives no feature section, and
\* ("data-provider", "none") gives the setup and closing sections only.
C8_BuildServerPrompt ==
  call.op = "build_server_prompt" =>
    LET server_type == call.args[1]
        features == call.args[2]
        header == build_header_prefix \o server_type \o build_header_suffix
        elements == IF features = <<110,111,110,101>> THEN {}
                    ELSE Range(Split(features, <<44>>))
        has_auth == <<97,117,116,104>> \in elements
        has_metrics == <<109,101,116,114,105,99,115>> \in elements
        archetypes == {a \in ArchetypeSections : a[1] = server_type}
        at(part) == PositionOf(part, ret)
        length == Len(header) + Len(section_closing)
                  + (IF has_auth THEN Len(section_auth) ELSE 0)
                  + (IF has_metrics THEN Len(section_metrics) ELSE 0)
                  + (IF archetypes = {} THEN 0 ELSE Len((CHOOSE a \in archetypes : TRUE)[2]))
    IN  /\ SubSeq(ret, 1, Len(header)) = header
        /\ SubSeq(ret, Len(ret) - Len(section_closing) + 1, Len(ret)) = section_closing
        /\ Len(ret) = length
        /\ \A a \in ArchetypeSections : (a[1] = server_type) <=> Contains(a[2], ret)
        /\ has_auth <=> Contains(section_auth, ret)
        /\ has_metrics <=> Contains(section_metrics, ret)
        /\ \A a \in archetypes : at(a[2]) = Len(header) + 1
        /\ has_auth => \A a \in archetypes : at(a[2]) < at(section_auth)
        /\ has_metrics => \A a \in archetypes : at(a[2]) < at(section_metrics)
        /\ has_auth /\ has_metrics => at(section_auth) < at(section_metrics)
        /\ \A other \in FeatureStrings :
             (other # <<110,111,110,101>> /\ features # <<110,111,110,101>>
              /\ Range(Split(other, <<44>>)) = elements)
               => build_server_prompt_return(server_type, other) = ret
        /\ (server_type = <<100,97,116,97,45,112,114,111,118,105,100,101,114>>
            /\ features = <<110,111,110,101>>) => ret = header \o section_closing

\* ("tool-based", "metrics,auth") gave a text with both feature sections
C8_Witness ==
  /\ call.op = "build_server_prompt"
  /\ call.args = <<server_type_tool_based, <<109,101,116,114,105,99,115,44,97,117,116,104>>>>
  /\ Contains(section_auth, ret)
  /\ Contains(section_metrics, ret)

\* C9: the preview of every document search_documentation returns is the first
\* 200 characters of its content (the whole content when it is shorter)
\* followed by "...": a content of length L gives a preview of length
\* min(L, 200) + 3.
C9_Preview ==
  call.op = "search_documentation" =>
    \A r \in Range(ret.results) :
      \A d \in 1..Len(DOCS) :
        DOCS[d][1] = r.id =>
          LET content == DOCS[d][2].content
              kept == IF Len(content) < 200 THEN Len(content) ELSE 200
          IN  /\ Len(r.preview) = kept + 3
              /\ \A i \in 1..kept : r.preview[i] = content[i]
              /\ \A i \in (kept + 1)..(kept + 3) : r.preview[i] = 46

\* a search returned a document whose content has 50 characters, with a
\* preview of 53
C9_Witness ==
  /\ call.op = "search_documentation"
  /\ \E r \in Range(ret.results) :
       /\ Len(r.preview) = 53
       /\ \E d \in 1..Len(DOCS) : DOCS[d][1] = r.id /\ Len(DOCS[d][2].content) = 50

\* the last line of a text that ends with a newline
LastLine(text) ==
  LET body == SubSeq(text, 1, Len(text) - 1)
      breaks == {i \in 1..Len(body) : body[i] = 10}
      start == IF breaks = {} THEN 1
               ELSE 1 + CHOOSE i \in breaks : \A j \in breaks : j <= i
  IN  SubSeq(body, start, Len(body))

\* the recommended-topics line by topic, written out: "tools" with the three
\* others, and so on; any other topic with all four
RecommendedLine(topic) ==
  IF topic = <<116,111,111,108,115>>
  THEN <<112,114,111,109,112,116,115,44,32,114,101,115,111,117,114,99,101,115,44,32,
         100,101,112,108,111,121,109,101,110,116>>
  ELSE IF topic = <<112,114,111,109,112,116,115>>
  THEN <<116,111,111,108,115,44,32,114,101,115,111,117,114,99,101,115,44,32,
         100,101,112,108,111,121,109,101,110,116>>
  ELSE IF topic = <<114,101,115,111,117,114,99,101,115>>
  THEN <<116,111,111,108,115,44,32,112,114,111,109,112,116,115,44,32,
         100,101,112,108,111,121,109,101,110,116>>
  ELSE IF topic = <<100,101,112,108,111,121,109,101,110,116>>
  THEN <<116,111,111,108,115,44,32,112,114,111,109,112,116,115,44,32,
         114,101,115,111,117,114,99,101,115>>
  ELSE <<116,111,111,108,115,44,32,112,114,111,109,112,116,115,44,32,
         114,101,115,111,117,114,99,101,115,44,32,100,101,112,108,111,121,109,101,110,116>>

\* C10: the recommended-next-topics line of learn_prompt(topic, learn_style)
\* is the list tools, prompts, resources, deployment without the entries equal
\* to topic, the others in that order: a topic of the list gives the other
\* three, any other topic gives all four, and learn_style does not change the
\* line.
C10_RecommendedTopics ==
  call.op = "learn_prompt" =>
    /\ ret[Len(ret)] = 10
    /\ LastLine(ret) = RecommendedLine(call.args[1])
    /\ \A learn_style \in LearnStyles :
         LastLine(learn_prompt_return(call.args[1], learn_style)) = LastLine(ret)

\* learn_prompt("tools", ...) recommended prompts, resources, deployment
C10_Witness ==
  /\ call.op = "learn_prompt"
  /\ call.args[1] = <<116,111,111,108,115>>
  /\ LastLine(ret) = <<112,114,111,109,112,116,115,44,32,114,101,115,111,117,114,99,101,115,44,32,
                       100,101,112,108,111,121,109,101,110,116>>

\* a text: a sequence of character codes
IsText(value) == DOMAIN value = 1..Len(value) /\ \A i \in DOMAIN value : value[i] \in 0..127

\* C11: the value every operation but the stats resource returns depends on its
\* arguments and the static tables only, not on the calls made before: the same
\* operation with the same arguments returns the same value whatever
\* total_searches is and whatever was called in between; an unrecognized
\* server_type or issue_type gives a fallback text, not an error.
C11_ResultsIndependentOfHistory ==
  /\ (call = memo.call /\ call.op # "docs_stats") => ret = memo.ret
  /\ (call.op = "debug_prompt" /\ ~HasKey(debug_steps, call.args[1])) =>
       /\ IsText(ret)
       /\ ret = debug_fallback_prefix \o call.args[1] \o debug_fallback_suffix
  /\ (call.op = "build_server_prompt"
      /\ \A a \in ArchetypeSections : a[1] # call.args[1]) =>
       /\ IsText(ret)
       /\ \A a \in ArchetypeSections : ~Contains(a[2], ret)
       /\ SubSeq(ret, Len(ret) - Len(section_closing) + 1, Len(ret)) = section_closing

\* a search that found documents was kept when the counter was 1 and repeated
\* when the counter was 3
C11_Witness ==
  /\ call.op = "search_documentation"
  /\ call = memo.call
  /\ ret.count > 0
  /\ memo.total_searches = 1
  /\ STATS.total_searches = 3

====
